---- MODULE Spec2Model ----
(***************************************************************************)
(* Remote storage synchronisation of the pageserver                        *)
(* (pageserver/src/storage_sync.rs): the sync queue, the task batcher, the *)
(* scheduler loop with its per-timeline worker, and the upload, download   *)
(* and delete protocols, for one timeline (one ZTenantTimelineId); and,    *)
(* in sections of their own, KeySpace::partition (keyspace.rs) and the     *)
(* billing metrics collector (billing_metrics.rs).                         *)
(*                                                                         *)
(* Option<T> is a sequence of length at most one: <<>> is None and <<x>>   *)
(* is Some(x).  A TimelineMetadata is [lsn, tag]: its disk_consistent_lsn  *)
(* and a tag standing for the rest of its bytes.                           *)
(***************************************************************************)
EXTENDS Integers, Sequences, FiniteSets, TLC

\* ------------------------------------------------------------------ bounds
Layers == {"L1", "L2"}
MaxLsn == 2
Tags == {"a", "b"}
\* number of schedule_layer_* calls made from outside the loop
MaxSchedules == 2
\* storage_config.max_sync_errors and storage_config.max_concurrent_syncs
MaxSyncErrors == 2
MaxConcurrentSyncs == 2
\* number of storage and file operations that fail
MaxFailures == 2
\* largest max_sync_errors of specification SpecBackoff
MaxErrorsBackoff == 8
\* longest channel of specification SpecQueue
MaxQueue == 3
\* number of sync_queue::push calls of specification SpecDrain
MaxPushes == 3
\* width in bits of usize in specification SpecDrain
UsizeBits == 3

\* keys are 0 .. MaxKey and a KeySpace has at most MaxRanges ranges
MaxKey == 6
MaxRanges == 2

\* the capacity of the Vec parts in KeySpace::partition
MaxParts == 8

\* keyspace.rs, MAX_LAYER_KEY_RANGE, scaled to the keys 0 .. MaxKey
MAX_LAYER_KEY_RANGE == 4

\* largest value of a billing metric
MaxMetric == 2

\* billing_metrics.rs, CHUNK_SIZE, scaled to the metrics of two tenants
CHUNK_SIZE == 2

Lsns == 1..MaxLsn
Metas == [lsn : Lsns, tag : Tags]

\* ------------------------------------------------------------------ Option
None == <<>>
Some(x) == <<x>>
IsSome(o) == o # <<>>
Unwrap(o) == o[1]

Min(a, b) == IF a <= b THEN a ELSE b
Max(a, b) == IF a >= b THEN a ELSE b

\* Option<Lsn> as Rust orders it: None is below every Some(lsn).
OptLsn(m) == IF IsSome(m) THEN Unwrap(m).lsn ELSE -1

\* ------------------------------------------------------------------ state
VARIABLES
    queue,        \* sync_queue: the unbounded channel, FIFO of SyncTask
    index,        \* RemoteIndex: Option of the timeline's RemoteTimeline entry
    remote,       \* object store: Option of the timeline's IndexPart
    blobs,        \* object store: layer blobs present
    localFiles,   \* layer files in the timeline directory
    localMeta,    \* Option of the local metadata file
    lpc,          \* storage_sync_loop: "recv" or "step"
    batch,        \* the SyncTaskBatch being processed
    snapshot,     \* current_remote_timeline of process_sync_task_batch
    upc, utask,   \* upload branch of the join: position and working copy
    uprev,        \* history: stored_files before the upload's index update
    dpc, dtask,   \* download branch of the join: position and working copy
    xpc, xtask,   \* delete part: position and working copy
    uresult,      \* how the upload branch of this step ended
    dresult,      \* how the download branch of this step ended
    xresult,      \* how the delete part of this step ended
    status,       \* status_update of the step: Option of "Downloaded"
    nsched,       \* schedule_layer_* calls made so far
    everPut,      \* history: layers whose blob PUT has succeeded
    nfail,        \* storage and file operations that have failed so far
    gcLayers,     \* layers handed to schedule_layer_delete so far
    bk,           \* retry sequence of one task (specification SpecBackoff)
    sq,           \* sync_queue for several timelines (specification SpecQueue)
    initStatus,   \* Option of the LocalTimelineInitStatus that startup returns
                  \* (specification SpecStartup; the loop does not keep it)
    fatal_task_failures, \* the counter FATAL_TASK_FAILURES
    pushing,      \* sync_queue::push calls that have sent and not yet counted
                  \* (specification SpecDrain)
    nb,           \* locals of the running next_task_batch (SpecDrain)
    workers,      \* the process_sync_task_batch futures of a loop step, for
                  \* several timelines (specification SpecLoop)
    kp,           \* locals of KeySpace::partition (specification SpecPartition)
    bm            \* collect_metrics: cache and iteration (specification SpecMetrics)

vars == <<queue, index, remote, blobs, localFiles, localMeta, lpc, batch,
          snapshot, upc, utask, uprev, dpc, dtask, xpc, xtask, uresult, dresult,
          xresult, status, nsched, everPut, nfail, gcLayers, bk, sq, initStatus,
          fatal_task_failures, pushing, nb, workers, kp, bm>>

\* ------------------------------------------------------------------ tasks
\* SyncTask::upload / download / delete: retries start at 0.
\* attempts and merged are history fields: the number of times the retry
\* gate let the task (or a task merged into it) through, and whether the
\* task is the result of a batch merge.
UploadTask(layers, meta) ==
    [kind |-> "Upload", retries |-> 0, layers_to_upload |-> layers,
     uploaded_layers |-> {}, metadata |-> meta, attempts |-> 0, merged |-> FALSE]

DownloadTask(skip) ==
    [kind |-> "Download", retries |-> 0, layers_to_skip |-> skip,
     attempts |-> 0, merged |-> FALSE]

DeleteTask(layers) ==
    [kind |-> "Delete", retries |-> 0, layers_to_delete |-> layers,
     deleted_layers |-> {}, deletion_registered |-> FALSE,
     attempts |-> 0, merged |-> FALSE]

\* sync_queue::push after init: appends at the tail.
Push(q, task) == Append(q, task)

\* Variant of SenderPush: the task is appended whether SENDER is set or not.
SenderPushAlways(s, q, task) == Append(q, task)

\* sync_queue::push on the statics s: the task is appended when SENDER is
\* set and dropped otherwise.
SenderPush(s, q, task) == IF IsSome(s.sender) THEN Push(q, task) ELSE q

\* schedule_first_sync_tasks: new_sync_tasks are pushed in order.
RECURSIVE PushAll(_, _, _)
PushAll(s, q, tasks) ==
    IF tasks = <<>> THEN q
    ELSE PushAll(s, SenderPush(s, q, Head(tasks)), Tail(tasks))

\* SyncTaskBatch::default
EmptyBatch == [upload |-> None, download |-> None, delete |-> None]

MergeDownload(old, new) ==
    [old EXCEPT !.retries = Min(old.retries, new.retries),
                !.layers_to_skip = old.layers_to_skip \cup new.layers_to_skip,
                !.attempts = Max(old.attempts, new.attempts),
                !.merged = TRUE]

\* Variant of MergeUpload: the metadata of the batch is kept on a tie.
MergeUploadOldWinsTies(old, new) ==
    [old EXCEPT !.retries = Min(old.retries, new.retries),
                !.layers_to_upload = old.layers_to_upload \cup new.layers_to_upload,
                !.uploaded_layers = old.uploaded_layers \cup new.uploaded_layers,
                !.metadata = IF OptLsn(old.metadata) < OptLsn(new.metadata)
                             THEN new.metadata ELSE old.metadata,
                !.attempts = Max(old.attempts, new.attempts),
                !.merged = TRUE]

\* Variant of MergeUpload: the layers the new task has still to upload are
\* added to uploaded_layers.
MergeUploadMixesSets(old, new) ==
    [old EXCEPT !.retries = Min(old.retries, new.retries),
                !.layers_to_upload = old.layers_to_upload \cup new.layers_to_upload,
                !.uploaded_layers = old.uploaded_layers \cup new.layers_to_upload,
                !.metadata = IF OptLsn(old.metadata) <= OptLsn(new.metadata)
                             THEN new.metadata ELSE old.metadata,
                !.attempts = Max(old.attempts, new.attempts),
                !.merged = TRUE]

MergeUpload(old, new) ==
    [old EXCEPT !.retries = Min(old.retries, new.retries),
                !.layers_to_upload = old.layers_to_upload \cup new.layers_to_upload,
                !.uploaded_layers = old.uploaded_layers \cup new.uploaded_layers,
                !.metadata = IF OptLsn(old.metadata) <= OptLsn(new.metadata)
                             THEN new.metadata ELSE old.metadata,
                !.attempts = Max(old.attempts, new.attempts),
                !.merged = TRUE]

\* Variant of MergeDelete: the merged task keeps the larger retries.
MergeDeleteMaxRetries(old, new) ==
    [old EXCEPT !.retries = Max(old.retries, new.retries),
                !.layers_to_delete = old.layers_to_delete \cup new.layers_to_delete,
                !.deleted_layers = old.deleted_layers \cup new.deleted_layers,
                !.attempts = Max(old.attempts, new.attempts),
                !.merged = TRUE]

MergeDelete(old, new) ==
    [old EXCEPT !.retries = Min(old.retries, new.retries),
                !.layers_to_delete = old.layers_to_delete \cup new.layers_to_delete,
                !.deleted_layers = old.deleted_layers \cup new.deleted_layers,
                !.attempts = Max(old.attempts, new.attempts),
                !.merged = TRUE]

\* SyncTaskBatch::add
BatchAdd(b, task) ==
    CASE task.kind = "Download" ->
           [b EXCEPT !.download = IF IsSome(b.download)
                                  THEN Some(MergeDownload(Unwrap(b.download), task))
                                  ELSE Some(task)]
      [] task.kind = "Upload" ->
           [b EXCEPT !.upload = IF IsSome(b.upload)
                                THEN Some(MergeUpload(Unwrap(b.upload), task))
                                ELSE Some(task)]
      [] task.kind = "Delete" ->
           [b EXCEPT !.delete = IF IsSome(b.delete)
                                THEN Some(MergeDelete(Unwrap(b.delete), task))
                                ELSE Some(task)]

\* Variant of BatchTaken: the tasks are left in the queue.
BatchTakenNothing(q) == 0

\* sync_queue::next_task_batch for a queue that holds tasks of one timeline:
\* the first task is taken; batched_timelines then holds one timeline, so
\* further tasks are pulled while 1 < max_timelines_to_sync and the queue is
\* not empty.  Returns the number of tasks taken from the head of the queue.
BatchTaken(q) == IF 1 >= MaxConcurrentSyncs THEN 1 ELSE Len(q)

RECURSIVE BatchOf(_, _)
BatchOf(q, n) ==
    IF n = 0 THEN EmptyBatch ELSE BatchAdd(BatchOf(q, n - 1), q[n])

\* ------------------------------------------------------------------ startup
\* RemoteIndex::from_parts: the entry built from a fetched index part.
EntryOfPart(part) ==
    [metadata |-> part.metadata, stored_files |-> part.layers,
     upload_failed_files |-> {}, awaits_download |-> FALSE]

\* IndexPart::from_remote_timeline
PartOfEntry(entry) ==
    [metadata |-> entry.metadata, layers |-> entry.stored_files]

\* Variant of CompareTasks: the upload carries every local file.
CompareTasksUploadAll(local_metadata, local_files, remote_entry) ==
    (IF remote_entry.stored_files \ local_files # {}
     THEN <<DownloadTask(local_files)>> ELSE <<>>)
    \o
    (IF local_files \ remote_entry.stored_files # {}
     THEN <<UploadTask(local_files, Some(local_metadata))>>
     ELSE <<>>)

\* compare_local_and_remote_timeline: the tasks it pushes, in order.
CompareTasks(local_metadata, local_files, remote_entry) ==
    (IF remote_entry.stored_files \ local_files # {}
     THEN <<DownloadTask(local_files)>> ELSE <<>>)
    \o
    (IF local_files \ remote_entry.stored_files # {}
     THEN <<UploadTask(local_files \ remote_entry.stored_files, Some(local_metadata))>>
     ELSE <<>>)

CompareAwaits(local_files, remote_entry) ==
    remote_entry.stored_files \ local_files # {}

\* schedule_first_sync_tasks
FirstSyncTasks(local_metadata, local_files, entry) ==
    IF IsSome(entry)
    THEN CompareTasks(local_metadata, local_files, Unwrap(entry))
    ELSE <<UploadTask(local_files, Some(local_metadata))>>

\* Variant of CompareStatus: any difference of the two file sets needs sync.
CompareStatusAnyDifference(local_files, remote_entry) ==
    IF remote_entry.stored_files # local_files
    THEN "NeedsSync" ELSE "LocallyComplete"

\* compare_local_and_remote_timeline: the LocalTimelineInitStatus it returns.
CompareStatus(local_files, remote_entry) ==
    IF remote_entry.stored_files \ local_files # {}
    THEN "NeedsSync" ELSE "LocallyComplete"

\* schedule_first_sync_tasks: the status recorded for a local timeline.
FirstStatus(local_files, entry) ==
    IF IsSome(entry) THEN CompareStatus(local_files, Unwrap(entry))
    ELSE "LocallyComplete"

\* sync_queue before init: SENDER is not set, LENGTH is 0.  ret is what the
\* last call of init, push or next_task_batch returned ("ok" or "err",
\* "true" or "false", "batch"), tasks the map it returned when that was a
\* batch.
EmptyQueue ==
    [sender |-> None, channel |-> <<>>, length |-> 0, ret |-> "none", tasks |-> <<>>]

\* sync_queue after spawn_storage_sync_thread called init.  In Spec the
\* channel of the one timeline is the variable queue.
StartedQueue == [EmptyQueue EXCEPT !.sender = Some("sender")]

FirstIndex(local_files, entry) ==
    IF IsSome(entry)
    THEN Some([Unwrap(entry) EXCEPT
                 !.awaits_download = CompareAwaits(local_files, Unwrap(entry))])
    ELSE None

\* the parts of the pageserver that a specification leaves out are idle
OthersIdle ==
    /\ pushing = 0 /\ nb = None /\ workers = <<>> /\ kp = None /\ bm = None

IdleBackoff == [max |-> 1, retries |-> 0, slept |-> 0, last |-> 0, pc |-> "off"]

\* Metadata written before the pageserver started has tag "a".
OldMetas == {m \in Metas : m.tag = "a"}

\* spawn_storage_sync_thread: the state when the loop starts.  The timeline
\* is local; its index part, if there is one, lists layers whose blobs are
\* in the store.
Init ==
    \E lf \in SUBSET Layers, lm \in {m \in OldMetas : m.lsn = 1},
       part \in {None} \cup {Some([metadata |-> m, layers |-> ls]) :
                               m \in OldMetas, ls \in SUBSET Layers} :
        /\ localFiles = lf
        /\ localMeta = Some(lm)
        /\ remote = part
        /\ blobs = (IF IsSome(part) THEN Unwrap(part).layers ELSE {})
        /\ index = FirstIndex(lf, IF IsSome(part) THEN Some(EntryOfPart(Unwrap(part))) ELSE None)
        /\ queue = FirstSyncTasks(lm, lf, IF IsSome(part) THEN Some(EntryOfPart(Unwrap(part))) ELSE None)
        /\ lpc = "recv"
        /\ batch = EmptyBatch
        /\ snapshot = None
        /\ upc = "done" /\ utask = None /\ uprev = {}
        /\ dpc = "done" /\ dtask = None
        /\ xpc = "done" /\ xtask = None
        /\ uresult = "none" /\ dresult = "none" /\ xresult = "none"
        /\ status = None
        /\ nsched = 0
        /\ everPut = blobs
        /\ nfail = 0
        /\ gcLayers = {}
        /\ bk = IdleBackoff
        /\ sq = StartedQueue
        /\ initStatus = None
        /\ fatal_task_failures = 0
        /\ OthersIdle

\* ------------------------------------------------------------------ retry gate
RECURSIVE Pow2(_)
Pow2(n) == IF n <= 0 THEN 1 ELSE 2 * Pow2(n - 1)

\* Variant of GateBreaks: the gate breaks one retry too late.
GateBreaksLate(retries, max_sync_errors) == retries > max_sync_errors

\* validate_task_retries: the gate breaks when retries >= max_sync_errors.
GateBreaks(retries, max_sync_errors) == retries >= max_sync_errors

\* Variant of SecondsToWait: the exponential delay without the 30 s cap.
SecondsToWaitUncapped(retries) ==
    IF retries > 0 THEN Pow2(retries - 1) ELSE 0

\* validate_task_retries: seconds slept before the task is let through,
\* 2.0_f64.powf(current_attempt - 1.0).min(30.0) when current_attempt > 0.
SecondsToWait(retries) ==
    IF retries > 0 THEN Min(Pow2(retries - 1), 30) ELSE 0

\* Variant of Retried: the task is re-enqueued with its counter unchanged.
RetriedSame(task) == task

\* a task is re-enqueued with retries += 1
Retried(task) == [task EXCEPT !.retries = @ + 1]

\* the gate let the task through (history)
Attempted(task) == [task EXCEPT !.attempts = @ + 1]

\* ------------------------------------------------------------------ remote index
\* Variant of MetadataIsNewer: metadata of the same LSN also replaces.
MetadataIsNewerOrSame(existing_metadata, new_metadata) ==
    existing_metadata.lsn <= new_metadata.lsn

\* update_remote_data, RemoteDataUpdate::Upload: the existing entry's metadata
\* is replaced when it is older than the uploaded one.
MetadataIsNewer(existing_metadata, new_metadata) ==
    existing_metadata.lsn < new_metadata.lsn

\* Variant of UpdateExistingUpload: a failed upload lists its layers as stored.
UpdateExistingUploadListsFailed(entry, data, upload_failed) ==
    LET e1 == IF IsSome(data.metadata)
                 /\ MetadataIsNewer(entry.metadata, Unwrap(data.metadata))
              THEN [entry EXCEPT !.metadata = Unwrap(data.metadata)]
              ELSE entry
    IN  IF upload_failed
        THEN [e1 EXCEPT !.stored_files = @ \cup data.layers_to_upload]
        ELSE [e1 EXCEPT !.stored_files = @ \cup data.uploaded_layers]

\* Variant of UpdateExistingUpload: stored_files is replaced, not extended.
UpdateExistingUploadReplaces(entry, data, upload_failed) ==
    LET e1 == IF IsSome(data.metadata)
                 /\ MetadataIsNewer(entry.metadata, Unwrap(data.metadata))
              THEN [entry EXCEPT !.metadata = Unwrap(data.metadata)]
              ELSE entry
    IN  IF upload_failed
        THEN [e1 EXCEPT !.upload_failed_files = @ \cup data.layers_to_upload]
        ELSE [e1 EXCEPT !.stored_files = data.uploaded_layers]

\* update_remote_data, RemoteDataUpdate::Upload on an existing entry.
UpdateExistingUpload(entry, data, upload_failed) ==
    LET e1 == IF IsSome(data.metadata)
                 /\ MetadataIsNewer(entry.metadata, Unwrap(data.metadata))
              THEN [entry EXCEPT !.metadata = Unwrap(data.metadata)]
              ELSE entry
    IN  IF upload_failed
        THEN [e1 EXCEPT !.upload_failed_files = @ \cup data.layers_to_upload]
        ELSE [e1 EXCEPT !.stored_files = @ \cup data.uploaded_layers]

\* update_remote_data, RemoteDataUpdate::Upload without an entry.
NewEntryUpload(data, upload_failed) ==
    [metadata |-> Unwrap(data.metadata),
     stored_files |-> IF upload_failed THEN {} ELSE data.uploaded_layers,
     upload_failed_files |-> IF upload_failed THEN data.layers_to_upload ELSE {},
     awaits_download |-> FALSE]

\* update_remote_data, RemoteDataUpdate::Upload, the part under the index
\* write lock: ok is FALSE when it bails (no entry and no metadata).
UpdateRemoteUpload(idx, data, upload_failed) ==
    IF IsSome(idx)
    THEN [ok |-> TRUE, index |-> Some(UpdateExistingUpload(Unwrap(idx), data, upload_failed))]
    ELSE IF IsSome(data.metadata)
         THEN [ok |-> TRUE, index |-> Some(NewEntryUpload(data, upload_failed))]
         ELSE [ok |-> FALSE, index |-> idx]

\* Variant of UpdateRemoteDelete: the entry keeps the layers.
UpdateRemoteDeleteKeeps(idx, layers_to_remove) ==
    [ok |-> TRUE, put |-> IsSome(idx), index |-> idx]

\* Variant of UpdateRemoteDelete: without an entry it bails, as the upload
\* without metadata does.
UpdateRemoteDeleteNeedsEntry(idx, layers_to_remove) ==
    IF IsSome(idx)
    THEN [ok |-> TRUE, put |-> TRUE,
          index |-> Some([Unwrap(idx) EXCEPT !.stored_files = @ \ layers_to_remove])]
    ELSE [ok |-> FALSE, put |-> FALSE, index |-> idx]

\* update_remote_data, RemoteDataUpdate::Delete, the part under the index
\* write lock: without an entry it returns Ok(()) and uploads no index
\* part.  ok is FALSE when it returns an error before the index part PUT,
\* put is TRUE when it goes on to the PUT.
UpdateRemoteDelete(idx, layers_to_remove) ==
    IF IsSome(idx)
    THEN [ok |-> TRUE, put |-> TRUE,
          index |-> Some([Unwrap(idx) EXCEPT !.stored_files = @ \ layers_to_remove])]
    ELSE [ok |-> TRUE, put |-> FALSE, index |-> idx]

\* RemoteTimelineIndex::set_awaits_download(id, false); .ok() when absent
ClearAwaits(idx) ==
    IF IsSome(idx) THEN Some([Unwrap(idx) EXCEPT !.awaits_download = FALSE]) ELSE idx

\* ------------------------------------------------------------------ faults
\* A storage or file operation of a step fails (failed) or not.
Fault(failed) ==
    /\ failed => nfail < MaxFailures
    /\ nfail' = (IF failed THEN nfail + 1 ELSE nfail)

\* ------------------------------------------------------------------ callers
\* The queue is read only by next_task_batch, so a push made while a step
\* runs is ordered only against the pushes of that step: before them (the
\* worker has not moved yet) or after them (the step has returned).
StepNotStarted ==
    /\ lpc = "step"
    /\ utask = batch.upload /\ upc \in {"gate", "done"} /\ uresult = "none"
    /\ dtask = batch.download /\ dpc \in {"gate", "done"} /\ dresult = "none"
    /\ xpc = "wait"

Scheduled ==
    /\ lpc = "recv" \/ StepNotStarted
    /\ nsched < MaxSchedules
    /\ nsched' = nsched + 1

\* schedule_layer_upload, called with one layer file of the timeline
\* directory.  Layer files are immutable and a removed layer does not come
\* back: a layer handed to schedule_layer_delete is not uploaded again.
ScheduleUpload ==
    /\ Scheduled
    /\ \E l \in localFiles \ gcLayers, meta \in {None, localMeta} :
            queue' = Push(queue, UploadTask({l}, meta))
    /\ UNCHANGED <<index, remote, blobs, localFiles, localMeta, lpc, batch,
                   snapshot, upc, utask, uprev, dpc, dtask, xpc, xtask, uresult,
                   dresult, xresult, status, everPut, nfail, gcLayers, bk, sq, initStatus,
                   fatal_task_failures, pushing, nb, workers, kp, bm>>

\* schedule_layer_download
ScheduleDownload ==
    /\ Scheduled
    /\ queue' = Push(queue, DownloadTask({}))
    /\ UNCHANGED <<index, remote, blobs, localFiles, localMeta, lpc, batch,
                   snapshot, upc, utask, uprev, dpc, dtask, xpc, xtask, uresult,
                   dresult, xresult, status, everPut, nfail, gcLayers, bk, sq, initStatus,
                   fatal_task_failures, pushing, nb, workers, kp, bm>>

\* schedule_layer_delete, called with one layer
ScheduleDelete ==
    /\ Scheduled
    /\ \E l \in Layers :
         /\ queue' = Push(queue, DeleteTask({l}))
         /\ gcLayers' = gcLayers \cup {l}
    /\ UNCHANGED <<index, remote, blobs, localFiles, localMeta, lpc, batch,
                   snapshot, upc, utask, uprev, dpc, dtask, xpc, xtask, uresult,
                   dresult, xresult, status, everPut, nfail, bk, sq, initStatus,
                   fatal_task_failures, pushing, nb, workers, kp, bm>>

\* A checkpoint of the pageserver: a layer file and newer metadata appear on
\* disk.  Checkpoints are unavailable while the timeline awaits its download.
Checkpoint ==
    /\ IsSome(localMeta) /\ Unwrap(localMeta).lsn < MaxLsn
    /\ ~(IsSome(index) /\ Unwrap(index).awaits_download)
    /\ \E l \in Layers \ gcLayers :
         /\ localFiles' = localFiles \cup {l}
         /\ localMeta' = Some([lsn |-> Unwrap(localMeta).lsn + 1, tag |-> "b"])
    /\ UNCHANGED <<queue, index, remote, blobs, lpc, batch, snapshot, upc, utask,
                   uprev, dpc, dtask, xpc, xtask, uresult, dresult, xresult,
                   status, nsched, everPut, nfail, gcLayers, bk, sq, initStatus,
                   fatal_task_failures, pushing, nb, workers, kp, bm>>

\* ------------------------------------------------------------------ loop step
\* loop_step: next_task_batch, then process_sync_task_batch reads the entry.
NextTaskBatch ==
    /\ lpc = "recv" /\ queue # <<>>
    /\ LET n == BatchTaken(queue)
           b == BatchOf(queue, n)
       IN  /\ batch' = b
           /\ queue' = SubSeq(queue, n + 1, Len(queue))
           /\ utask' = b.upload /\ uprev' = {} /\ upc' = (IF IsSome(b.upload) THEN "gate" ELSE "done")
           /\ dtask' = b.download /\ dpc' = (IF IsSome(b.download) THEN "gate" ELSE "done")
           /\ xtask' = b.delete /\ xpc' = "wait"
    /\ snapshot' = index
    /\ lpc' = "step"
    /\ uresult' = "none" /\ dresult' = "none" /\ xresult' = "none"
    /\ status' = None
    /\ UNCHANGED <<index, remote, blobs, localFiles, localMeta, nsched, everPut, nfail, gcLayers, bk, sq, initStatus,
                   fatal_task_failures, pushing, nb, workers, kp, bm>>

\* ------------------------------------------------------------------ upload
\* upload_timeline_layers: the layers it PUTs.
UploadTodo(data) == data.layers_to_upload \ data.uploaded_layers

\* upload_timeline_layers: each layer whose PUT succeeded moves from
\* layers_to_upload to uploaded_layers.
UploadedLayers(data, put_ok) ==
    [data EXCEPT !.layers_to_upload = @ \ put_ok,
                 !.uploaded_layers = @ \cup put_ok]

\* upload_timeline_layers: UploadedTimeline::SuccessfulAfterLocalFsUpdate is
\* possible when the task's metadata lags the local metadata file.
MetadataLagsLocal(data, local_metadata) ==
    /\ IsSome(data.metadata) /\ IsSome(local_metadata)
    /\ Unwrap(data.metadata).lsn < Unwrap(local_metadata).lsn

\* stored_files of an Option of an entry
StoredOf(idx) == IF IsSome(idx) THEN Unwrap(idx).stored_files ELSE {}

\* process_sync_task_batch, upload branch: validate_task_retries; when the
\* gate breaks, update_remote_data(upload_failed: true) changes the entry.
UploadGate ==
    /\ lpc = "step" /\ upc = "gate"
    /\ LET t == Unwrap(utask)
           r == UpdateRemoteUpload(index, t, TRUE)
       IN  IF GateBreaks(t.retries, MaxSyncErrors)
           THEN /\ index' = r.index
                /\ upc' = (IF r.ok THEN "fail_put" ELSE "done")
                /\ uresult' = "fatal"
                /\ utask' = utask
           ELSE /\ utask' = Some(Attempted(t))
                /\ upc' = "layers"
                /\ UNCHANGED <<index, uresult>>
    /\ UNCHANGED <<queue, remote, blobs, localFiles, localMeta, lpc, batch,
                   snapshot, uprev, dpc, dtask, xpc, xtask, dresult, xresult,
                   status, nsched, everPut, nfail, gcLayers, bk, sq, initStatus,
                   fatal_task_failures, pushing, nb, workers, kp, bm>>

\* the index part PUT after the gate broke: a failure is only logged
UploadFailPut ==
    /\ lpc = "step" /\ upc = "fail_put"
    /\ \E put_ok \in BOOLEAN :
         /\ Fault(~put_ok)
         /\ remote' = (IF put_ok THEN Some(PartOfEntry(Unwrap(index))) ELSE remote)
    /\ upc' = "done"
    /\ UNCHANGED <<queue, index, blobs, localFiles, localMeta, lpc, batch,
                   snapshot, utask, uprev, dpc, dtask, xpc, xtask, uresult,
                   dresult, xresult, status, nsched, everPut, gcLayers, bk, sq, initStatus,
                   fatal_task_failures, pushing, nb, workers, kp, bm>>

\* upload_timeline_data: what follows upload_timeline_layers.
\* FailedAndRescheduled returns; the two successful outcomes go on to
\* update_remote_data.
AfterUploadLayers(all_ok, fs_updated) ==
    IF ~all_ok THEN "done" ELSE IF fs_updated THEN "update_fs" ELSE "update"

\* upload_timeline_layers: the blob PUTs of one attempt
UploadLayers ==
    /\ lpc = "step" /\ upc = "layers"
    /\ LET t == Unwrap(utask)
           todo == UploadTodo(t)
       IN  \E put_ok \in SUBSET todo, fs_updated \in BOOLEAN :
             LET t2 == UploadedLayers(t, put_ok)
                 all_ok == (put_ok = todo)
             IN  /\ fs_updated => (all_ok /\ MetadataLagsLocal(t, localMeta))
                 /\ Fault(~all_ok)
                 /\ blobs' = blobs \cup put_ok
                 /\ everPut' = everPut \cup put_ok
                 /\ upc' = AfterUploadLayers(all_ok, fs_updated)
                 /\ IF all_ok
                    THEN /\ utask' = Some(t2)
                         /\ UNCHANGED <<queue, uresult>>
                    ELSE /\ utask' = Some(Retried(t2))
                         /\ queue' = Push(queue, Retried(t2))
                         /\ uresult' = "failed"
    /\ UNCHANGED <<index, remote, localFiles, localMeta, lpc, batch, snapshot,
                   uprev, dpc, dtask, xpc, xtask, dresult, xresult, status,
                   nsched, gcLayers, bk, sq, initStatus,
                   fatal_task_failures, pushing, nb, workers, kp, bm>>

\* upload_timeline_data: after SuccessfulAfterLocalFsUpdate the task's
\* metadata, if it has one, is replaced by the local metadata file.
RefreshedMetadata(data, local_metadata) ==
    IF IsSome(data.metadata) THEN [data EXCEPT !.metadata = local_metadata] ELSE data

\* upload_timeline_data: the local metadata is re-read if needed, then
\* update_remote_data changes the entry under the index write lock.
UploadUpdate ==
    /\ lpc = "step" /\ upc \in {"update", "update_fs"}
    /\ \E read_ok \in BOOLEAN :
         LET t  == Unwrap(utask)
             t2 == IF upc = "update_fs" THEN RefreshedMetadata(t, localMeta) ELSE t
             r  == UpdateRemoteUpload(index, t2, FALSE)
         IN  /\ (upc = "update") => read_ok
             /\ Fault(~read_ok)
             /\ IF ~read_ok
                THEN /\ utask' = Some(Retried(t))
                     /\ queue' = Push(queue, Retried(t))
                     /\ upc' = "done" /\ uresult' = "failed"
                     /\ UNCHANGED <<index, uprev>>
                ELSE IF ~r.ok
                THEN /\ utask' = Some(Retried(t2))
                     /\ queue' = Push(queue, Retried(t2))
                     /\ upc' = "done" /\ uresult' = "failed"
                     /\ UNCHANGED <<index, uprev>>
                ELSE /\ utask' = Some(t2)
                     /\ index' = r.index
                     /\ uprev' = StoredOf(index)
                     /\ upc' = "put"
                     /\ UNCHANGED <<queue, uresult>>
    /\ UNCHANGED <<remote, blobs, localFiles, localMeta, lpc, batch, snapshot,
                   dpc, dtask, xpc, xtask, dresult, xresult, status, nsched,
                   everPut, gcLayers, bk, sq, initStatus,
                   fatal_task_failures, pushing, nb, workers, kp, bm>>

\* update_remote_data: upload_index_part; upload_timeline_data re-enqueues
\* the task when it fails.
UploadPut ==
    /\ lpc = "step" /\ upc = "put"
    /\ \E put_ok \in BOOLEAN :
       /\ Fault(~put_ok)
       /\ IF put_ok
         THEN /\ remote' = Some(PartOfEntry(Unwrap(index)))
              /\ uresult' = "ok"
              /\ UNCHANGED <<queue, utask>>
         ELSE /\ utask' = Some(Retried(Unwrap(utask)))
              /\ queue' = Push(queue, Retried(Unwrap(utask)))
              /\ uresult' = "failed"
              /\ UNCHANGED remote
    /\ upc' = "done"
    /\ UNCHANGED <<index, blobs, localFiles, localMeta, lpc, batch, snapshot,
                   uprev, dpc, dtask, xpc, xtask, dresult, xresult, status,
                   nsched, everPut, gcLayers, bk, sq, initStatus,
                   fatal_task_failures, pushing, nb, workers, kp, bm>>

\* ------------------------------------------------------------------ download
\* download_timeline_layers: the layers it GETs.
DownloadTodo(remote_timeline, data) ==
    remote_timeline.stored_files \ data.layers_to_skip

\* download_timeline_layers: the outcome of one attempt.
DownloadOutcome(remote_timeline, all_ok) ==
    IF ~IsSome(remote_timeline) THEN "Abort"
    ELSE IF all_ok THEN "Successful" ELSE "FailedAndRescheduled"

\* Variant of AfterDownloadLayers: a failed attempt also goes on to
\* update_local_metadata.
AfterDownloadLayersAlways(outcome) ==
    IF outcome = "Abort" THEN "done" ELSE "meta"

\* download_timeline_data: what follows download_timeline_layers.  Only
\* DownloadedTimeline::Successful goes on to update_local_metadata.
AfterDownloadLayers(outcome) ==
    IF outcome = "Successful" THEN "meta" ELSE "done"

\* Variant of LocalIsOlder: any difference of LSN overwrites.
LocalIsOlderOrNewer(local_metadata, remote_metadata) ==
    OptLsn(local_metadata) # remote_metadata.lsn

\* update_local_metadata: local_lsn < Some(remote_lsn), with local_lsn None
\* when the metadata file does not exist.
LocalIsOlder(local_metadata, remote_metadata) ==
    OptLsn(local_metadata) < remote_metadata.lsn

\* Variant of UpdatedLocalMetadata: the local metadata file is never written.
UpdatedLocalMetadataNever(local_metadata, remote_timeline) == local_metadata

\* update_local_metadata: the local metadata file after it returned Ok.
UpdatedLocalMetadata(local_metadata, remote_timeline) ==
    IF ~IsSome(remote_timeline) THEN local_metadata
    ELSE IF LocalIsOlder(local_metadata, Unwrap(remote_timeline).metadata)
         THEN Some(Unwrap(remote_timeline).metadata)
         ELSE local_metadata

\* Variant of DownloadGateBroke: the entry is left as it is.
DownloadGateBrokeKeeps(idx) == idx

\* process_sync_task_batch, download branch, ControlFlow::Break:
\* index.write().await.set_awaits_download(&sync_id, false).ok()
DownloadGateBroke(idx) == ClearAwaits(idx)

\* process_sync_task_batch, download branch: validate_task_retries; when the
\* gate breaks, awaits_download is cleared.
DownloadGate ==
    /\ lpc = "step" /\ dpc = "gate"
    /\ LET t == Unwrap(dtask)
       IN  IF GateBreaks(t.retries, MaxSyncErrors)
           THEN /\ index' = DownloadGateBroke(index)
                /\ dpc' = "done" /\ dresult' = "fatal"
                /\ dtask' = dtask
           ELSE /\ dtask' = Some(Attempted(t))
                /\ dpc' = "layers"
                /\ UNCHANGED <<index, dresult>>
    /\ UNCHANGED <<queue, remote, blobs, localFiles, localMeta, lpc, batch,
                   snapshot, upc, utask, uprev, xpc, xtask, uresult, xresult,
                   status, nsched, everPut, nfail, gcLayers, bk, sq, initStatus,
                   fatal_task_failures, pushing, nb, workers, kp, bm>>

\* download_timeline_layers: the blob GETs of one attempt, each into a
\* temporary file renamed to the layer path; a GET of a missing blob fails.
DownloadLayers ==
    /\ lpc = "step" /\ dpc = "layers"
    /\ LET t == Unwrap(dtask)
           todo == IF IsSome(snapshot) THEN DownloadTodo(Unwrap(snapshot), t) ELSE {}
       IN  \E get_ok \in SUBSET (todo \cap blobs) :
             LET outcome == DownloadOutcome(snapshot, get_ok = todo)
                 t2 == [t EXCEPT !.layers_to_skip = @ \cup get_ok]
             IN  /\ Fault(get_ok # todo \cap blobs)
                 /\ localFiles' = localFiles \cup get_ok
                 /\ dpc' = AfterDownloadLayers(outcome)
                 /\ IF outcome = "Abort"
                    THEN /\ index' = ClearAwaits(index)
                         /\ dresult' = "aborted"
                         /\ UNCHANGED <<queue, dtask>>
                    ELSE IF outcome = "FailedAndRescheduled"
                    THEN /\ dtask' = Some(Retried(t2))
                         /\ queue' = Push(queue, Retried(t2))
                         /\ dresult' = "failed"
                         /\ UNCHANGED index
                    ELSE /\ dtask' = Some(t2)
                         /\ UNCHANGED <<queue, index, dresult>>
    /\ UNCHANGED <<remote, blobs, localMeta, lpc, batch, snapshot, upc, utask,
                   uprev, xpc, xtask, uresult, xresult, status, nsched,
                   everPut, gcLayers, bk, sq, initStatus,
                   fatal_task_failures, pushing, nb, workers, kp, bm>>

\* download_timeline_data after DownloadedTimeline::Successful:
\* update_local_metadata, then set_awaits_download(false) and the status.
DownloadMeta ==
    /\ lpc = "step" /\ dpc = "meta"
    /\ \E io_ok \in BOOLEAN :
       /\ Fault(~io_ok)
       /\ IF io_ok
         THEN /\ localMeta' = UpdatedLocalMetadata(localMeta, snapshot)
              /\ index' = ClearAwaits(index)
              /\ status' = (IF IsSome(index) THEN Some("Downloaded") ELSE None)
              /\ dresult' = (IF IsSome(index) THEN "downloaded" ELSE "absent")
              /\ UNCHANGED <<queue, dtask>>
         ELSE /\ dtask' = Some(Retried(Unwrap(dtask)))
              /\ queue' = Push(queue, Retried(Unwrap(dtask)))
              /\ dresult' = "failed"
              /\ UNCHANGED <<localMeta, index, status>>
    /\ dpc' = "done"
    /\ UNCHANGED <<remote, blobs, localFiles, lpc, batch, snapshot, upc, utask,
                   uprev, xpc, xtask, uresult, xresult, nsched, everPut, gcLayers, bk, sq, initStatus,
                   fatal_task_failures, pushing, nb, workers, kp, bm>>

\* ------------------------------------------------------------------ delete
\* delete_timeline_layers: the layers it DELETEs.
DeleteTodo(data) == data.layers_to_delete \ data.deleted_layers

\* delete_timeline_layers: each layer whose DELETE succeeded moves from
\* layers_to_delete to deleted_layers.
DeletedLayers(data, delete_ok) ==
    [data EXCEPT !.layers_to_delete = @ \ delete_ok,
                 !.deleted_layers = @ \cup delete_ok]

\* delete_timeline_data: the index is updated unless the deletion is
\* already registered.
MustRegister(data) == ~data.deletion_registered

\* Variant of JoinReturned: the delete task waits for the upload only.
UploadReturned == upc = "done"

\* process_sync_task_batch: tokio::join! of the upload and the download
\* branch has returned.
JoinReturned == upc = "done" /\ dpc = "done"

\* process_sync_task_batch after the join: validate_task_retries for the
\* delete task.  When the gate breaks, update_remote_data removes
\* deleted_layers; otherwise delete_timeline_data starts: update_remote_data
\* removes layers_to_delete from the entry unless the deletion is registered,
\* and an error of it re-enqueues the task.
DeleteGate ==
    /\ lpc = "step" /\ xpc = "wait" /\ JoinReturned
    /\ IsSome(xtask)
    /\ LET t == Unwrap(xtask)
           rb == UpdateRemoteDelete(index, t.deleted_layers)
           rc == UpdateRemoteDelete(index, t.layers_to_delete)
       IN  IF GateBreaks(t.retries, MaxSyncErrors)
           THEN /\ index' = rb.index
                /\ xpc' = (IF rb.put THEN "fail_put" ELSE "done")
                /\ xresult' = "fatal"
                /\ xtask' = xtask
                /\ UNCHANGED queue
           ELSE IF MustRegister(t) /\ ~rc.ok
           THEN /\ xtask' = Some(Retried(Attempted(t)))
                /\ queue' = Push(queue, Retried(Attempted(t)))
                /\ xpc' = "done" /\ xresult' = "failed"
                /\ UNCHANGED index
           ELSE IF MustRegister(t) /\ rc.put
           THEN /\ index' = rc.index
                /\ xpc' = "put"
                /\ xtask' = Some(Attempted(t))
                /\ UNCHANGED <<queue, xresult>>
           ELSE /\ xtask' = Some([Attempted(t) EXCEPT !.deletion_registered = TRUE])
                /\ xpc' = "blobs"
                /\ UNCHANGED <<queue, index, xresult>>
    /\ UNCHANGED <<remote, blobs, localFiles, localMeta, lpc, batch,
                   snapshot, upc, utask, uprev, dpc, dtask, uresult, dresult,
                   status, nsched, everPut, nfail, gcLayers, bk, sq, initStatus,
                   fatal_task_failures, pushing, nb, workers, kp, bm>>

\* the index part PUT after the gate broke: a failure is only logged
DeleteFailPut ==
    /\ lpc = "step" /\ xpc = "fail_put"
    /\ \E put_ok \in BOOLEAN :
         /\ Fault(~put_ok)
         /\ remote' = (IF put_ok THEN Some(PartOfEntry(Unwrap(index))) ELSE remote)
    /\ xpc' = "done"
    /\ UNCHANGED <<queue, index, blobs, localFiles, localMeta, lpc, batch,
                   snapshot, upc, utask, uprev, dpc, dtask, xtask, uresult,
                   dresult, xresult, status, nsched, everPut, gcLayers, bk, sq, initStatus,
                   fatal_task_failures, pushing, nb, workers, kp, bm>>

\* delete_timeline_data: upload_index_part of update_remote_data; on failure
\* the task is re-enqueued, on success the deletion is registered.
DeletePut ==
    /\ lpc = "step" /\ xpc = "put"
    /\ \E put_ok \in BOOLEAN :
       /\ Fault(~put_ok)
       /\ IF put_ok
         THEN /\ remote' = Some(PartOfEntry(Unwrap(index)))
              /\ xtask' = Some([Unwrap(xtask) EXCEPT !.deletion_registered = TRUE])
              /\ xpc' = "blobs"
              /\ UNCHANGED <<queue, xresult>>
         ELSE /\ xtask' = Some(Retried(Unwrap(xtask)))
              /\ queue' = Push(queue, Retried(Unwrap(xtask)))
              /\ xpc' = "done" /\ xresult' = "failed"
              /\ UNCHANGED remote
    /\ UNCHANGED <<index, blobs, localFiles, localMeta, lpc, batch, snapshot,
                   upc, utask, uprev, dpc, dtask, uresult, dresult, status,
                   nsched, everPut, gcLayers, bk, sq, initStatus,
                   fatal_task_failures, pushing, nb, workers, kp, bm>>

\* delete_timeline_layers: the blob DELETEs of one attempt
DeleteBlobs ==
    /\ lpc = "step" /\ xpc = "blobs"
    /\ LET t == Unwrap(xtask)
           todo == DeleteTodo(t)
       IN  \E delete_ok \in SUBSET todo :
             LET t2 == DeletedLayers(t, delete_ok)
             IN  /\ Fault(delete_ok # todo)
                 /\ blobs' = blobs \ delete_ok
                 /\ IF delete_ok = todo
                    THEN /\ xtask' = Some(t2)
                         /\ xresult' = "ok"
                         /\ UNCHANGED queue
                    ELSE /\ xtask' = Some(Retried(t2))
                         /\ queue' = Push(queue, Retried(t2))
                         /\ xresult' = "failed"
    /\ xpc' = "done"
    /\ UNCHANGED <<index, remote, localFiles, localMeta, lpc, batch, snapshot,
                   upc, utask, uprev, dpc, dtask, uresult, dresult, status,
                   nsched, everPut, gcLayers, bk, sq, initStatus,
                   fatal_task_failures, pushing, nb, workers, kp, bm>>

\* loop_step returns: every branch of the worker has ended; the status
\* update, if any, goes to apply_timeline_sync_status_updates.
FinishStep ==
    /\ lpc = "step" /\ upc = "done" /\ dpc = "done"
    /\ (xpc = "done" \/ (xpc = "wait" /\ ~IsSome(xtask)))
    /\ lpc' = "recv"
    /\ batch' = EmptyBatch /\ snapshot' = None
    /\ utask' = None /\ dtask' = None /\ xtask' = None /\ uprev' = {}
    /\ xpc' = "done"
    /\ uresult' = "none" /\ dresult' = "none" /\ xresult' = "none"
    /\ status' = None
    /\ UNCHANGED <<queue, index, remote, blobs, localFiles, localMeta, upc, dpc,
                   nsched, everPut, nfail, gcLayers, bk, sq, initStatus,
                   fatal_task_failures, pushing, nb, workers, kp, bm>>

\* ------------------------------------------------------------------ system
Next ==
    \/ ScheduleUpload \/ ScheduleDownload \/ ScheduleDelete \/ Checkpoint
    \/ NextTaskBatch
    \/ UploadGate \/ UploadFailPut \/ UploadLayers \/ UploadUpdate \/ UploadPut
    \/ DownloadGate \/ DownloadLayers \/ DownloadMeta
    \/ DeleteGate \/ DeleteFailPut \/ DeletePut \/ DeleteBlobs
    \/ FinishStep

Spec == Init /\ [][Next]_vars

\* ------------------------------------------------------------------ shutdown
\* storage_sync_loop: tokio::select! of loop_step and
\* thread_mgr::shutdown_watcher.  When the watcher completes, select! drops
\* the loop_step future at whatever await it has reached, the loop breaks
\* and nothing of the step runs any more.
Shutdown ==
    /\ lpc \in {"recv", "step"}
    /\ lpc' = "exited"
    /\ UNCHANGED <<queue, index, remote, blobs, localFiles, localMeta, batch,
                   snapshot, upc, utask, uprev, dpc, dtask, xpc, xtask, uresult,
                   dresult, xresult, status, nsched, everPut, nfail, gcLayers,
                   bk, sq, initStatus,
                   fatal_task_failures, pushing, nb, workers, kp, bm>>

NextShutdown == Next \/ Shutdown

\* The sync loop with the shutdown signal.  Shutdown only stops the loop:
\* a behaviour of SpecShutdown is a behaviour of Spec, possibly followed by
\* Shutdown and by calls from outside the loop.
SpecShutdown == Init /\ [][NextShutdown]_vars

\* ------------------------------------------------------------------ one task's retries
\* The retry sequence of one task that is never merged, for a
\* max_sync_errors drawn from 1..MaxErrorsBackoff: validate_task_retries
\* sleeps and lets the task through or breaks; a failed attempt re-enqueues
\* the task with retries + 1.  bk.last is the sleep of the current attempt,
\* bk.slept the sum of the sleeps so far.
InitBackoff ==
    /\ bk \in {[max |-> m, retries |-> 0, slept |-> 0, last |-> 0, pc |-> "queued"] :
                 m \in 1..MaxErrorsBackoff}
    /\ queue = <<>> /\ index = None /\ remote = None /\ blobs = {}
    /\ localFiles = {} /\ localMeta = None
    /\ lpc = "recv" /\ batch = EmptyBatch /\ snapshot = None
    /\ upc = "done" /\ utask = None /\ uprev = {}
    /\ dpc = "done" /\ dtask = None
    /\ xpc = "done" /\ xtask = None
    /\ uresult = "none" /\ dresult = "none" /\ xresult = "none"
    /\ status = None /\ nsched = 0 /\ everPut = {} /\ nfail = 0 /\ gcLayers = {}
    /\ sq = StartedQueue /\ initStatus = None
    /\ fatal_task_failures = 0
    /\ OthersIdle

BackoffUnchanged ==
    UNCHANGED <<queue, index, remote, blobs, localFiles, localMeta, lpc, batch,
                snapshot, upc, utask, uprev, dpc, dtask, xpc, xtask, uresult,
                dresult, xresult, status, nsched, everPut, nfail, gcLayers,
                sq, initStatus,
                   fatal_task_failures, pushing, nb, workers, kp, bm>>

\* validate_task_retries
BackoffGate ==
    /\ bk.pc = "queued"
    /\ bk' = IF GateBreaks(bk.retries, bk.max)
             THEN [bk EXCEPT !.pc = "dropped"]
             ELSE [bk EXCEPT !.pc = "running",
                             !.last = SecondsToWait(bk.retries),
                             !.slept = @ + SecondsToWait(bk.retries)]
    /\ BackoffUnchanged

\* the attempt fails: the task is re-enqueued with retries += 1
BackoffFail ==
    /\ bk.pc = "running"
    /\ bk' = [bk EXCEPT !.pc = "queued", !.retries = @ + 1]
    /\ BackoffUnchanged

\* the attempt succeeds
BackoffSucceed ==
    /\ bk.pc = "running"
    /\ bk' = [bk EXCEPT !.pc = "done"]
    /\ BackoffUnchanged

NextBackoff == BackoffGate \/ BackoffFail \/ BackoffSucceed

SpecBackoff == InitBackoff /\ [][NextBackoff]_vars

\* ------------------------------------------------------------------ properties
\* layers of the index part in the object store
RemoteLayers == IF IsSome(remote) THEN Unwrap(remote).layers ELSE {}

\* every task in the queue or in the hands of the worker
AllTasks ==
    {queue[i] : i \in 1..Len(queue)}
        \cup {Unwrap(o) : o \in {utask, dtask, xtask} \ {None}}

\* an index part PUT has been prepared and has not returned
IndexWritePending ==
    upc \in {"put", "fail_put"} \/ xpc \in {"put", "fail_put"}

\* the step in which delete_timeline_layers issues its blob DELETEs
DeleteBlobsStep == xpc = "blobs" /\ xpc' = "done"

\* the step in which the upload's index part PUT is issued
UploadPutStep == upc = "put" /\ upc' = "done"

\* C1: whenever no index write is in flight, every layer path listed in the
\* timeline's index part in the object store has its blob in the store.
C1_ListedBlobsPresent ==
    ~IndexWritePending => RemoteLayers \subseteq blobs

\* C2 as stated: a path is in the in-memory stored_files only after an index
\* part PUT that lists it has succeeded, so whenever no upload index PUT is
\* pending the in-memory stored_files are listed in the stored index part.
C2_StoredOnlyAfterIndexPut ==
    upc # "put" => StoredOf(index) \subseteq RemoteLayers

\* C2 amended: a path is in the in-memory stored_files only if its blob PUT
\* has succeeded; the entry lists the upload's layers already while the
\* index part PUT is pending, and a failed PUT leaves them listed while the
\* task is re-enqueued with one more retry.
C2_StoredOnlyAfterBlobPut ==
    /\ StoredOf(index) \subseteq everPut
    /\ upc = "put" => Unwrap(utask).uploaded_layers \subseteq StoredOf(index)
    /\ uresult = "failed" => \E i \in 1..Len(queue) : queue[i] = Unwrap(utask)

\* the index part PUT of an upload failed: its layers are in the in-memory
\* stored_files and not in the stored index part
C2_Witness ==
    /\ uresult = "failed" /\ IsSome(utask) /\ IsSome(index)
    /\ Unwrap(utask).uploaded_layers # {}
    /\ Unwrap(utask).uploaded_layers \subseteq StoredOf(index)
    /\ Unwrap(utask).uploaded_layers \cap RemoteLayers = {}
    /\ \E i \in 1..Len(queue) : queue[i] = Unwrap(utask)

\* C3: an upload's index part PUT is issued only when every blob PUT of the
\* task has succeeded, and a blob DELETE is issued only when the index part
\* in the object store no longer lists the path.
C3_PutOrder ==
    [][ /\ UploadPutStep =>
             /\ UploadTodo(Unwrap(utask)) = {}
             /\ Unwrap(utask).uploaded_layers \subseteq everPut
        /\ DeleteBlobsStep => DeleteTodo(Unwrap(xtask)) \cap RemoteLayers = {}
      ]_vars

\* C4: when a delete task issues its blob DELETEs, none of the task's paths
\* is in stored_files of the timeline's in-memory index entry.
C4_DeleteOnlyUnlisted ==
    [][ DeleteBlobsStep =>
          (Unwrap(xtask).layers_to_delete \cup Unwrap(xtask).deleted_layers)
              \cap StoredOf(index) = {}
      ]_vars

\* C5: a download writes the local metadata file only after every blob GET
\* of the task has succeeded, and an attempt that fails leaves the local
\* metadata file as it was.
C5_MetadataLast ==
    [][ /\ (dpc' # dpc /\ localMeta' # localMeta) =>
              /\ dpc = "meta"
              /\ IsSome(snapshot)
              /\ Unwrap(snapshot).stored_files \subseteq localFiles
        /\ (dresult' = "failed" /\ dresult # "failed") => localMeta' = localMeta
        /\ (dpc = "layers" /\ dpc' # "layers") => localMeta' = localMeta
      ]_vars

\* a download with layers to fetch has overwritten the local metadata
C5_Witness ==
    /\ dresult = "downloaded"
    /\ DownloadTodo(Unwrap(snapshot), Unwrap(batch.download)) # {}
    /\ localMeta = Some(Unwrap(snapshot).metadata)
    /\ localMeta = Some([lsn |-> MaxLsn, tag |-> "a"])

C7_IndexLsnMonotonic ==
    [][ IsSome(index) =>
          /\ IsSome(index')
          /\ Unwrap(index').metadata.lsn >= Unwrap(index).metadata.lsn
          /\ (Unwrap(index').metadata # Unwrap(index).metadata
                => Unwrap(index').metadata.lsn > Unwrap(index).metadata.lsn)
      ]_vars

\* an upload with metadata of the entry's LSN and other bytes has updated
\* the entry, which kept its metadata
C7_Witness ==
    /\ upc = "put" /\ IsSome(Unwrap(utask).metadata)
    /\ Unwrap(Unwrap(utask).metadata).lsn = Unwrap(index).metadata.lsn
    /\ Unwrap(Unwrap(utask).metadata) # Unwrap(index).metadata
    /\ IsSome(snapshot)

\* C8: when an upload has committed, the index entry's LSN is at least the
\* LSN of the upload's metadata, its stored_files are the ones it had
\* before the update together with the layers the task uploaded, and the
\* index part in the store is the one built from the entry.
C8_UploadCommit ==
    (uresult = "ok" /\ xpc = "wait") =>
        /\ IsSome(index)
        /\ OptLsn(Some(Unwrap(index).metadata)) >= OptLsn(Unwrap(utask).metadata)
        /\ Unwrap(index).stored_files = uprev \cup Unwrap(utask).uploaded_layers
        /\ remote = Some(PartOfEntry(Unwrap(index)))

\* an upload of a new layer with newer metadata committed on an entry that
\* already stored another layer
C8_Witness ==
    /\ uresult = "ok" /\ xpc = "wait"
    /\ uprev # {}
    /\ ~(Unwrap(utask).uploaded_layers \subseteq uprev)
    /\ ~(uprev \subseteq Unwrap(utask).uploaded_layers)
    /\ IsSome(Unwrap(utask).metadata)
    /\ Unwrap(index).metadata = Unwrap(Unwrap(utask).metadata)
    /\ Unwrap(index).metadata.tag = "b"

\* C9 as stated: no task, merged or not, is let through the retry gate more
\* than max_sync_errors times in total.
C9_AttemptsBounded ==
    \A t \in AllTasks : t.attempts <= MaxSyncErrors

\* C9 amended: a task that is not the result of a merge is let through the
\* gate at most max_sync_errors times; the gate lets a task through only
\* while its retries are below max_sync_errors, and no task is enqueued
\* with more than max_sync_errors retries.
C9_UnmergedAttemptsBounded ==
    /\ \A t \in AllTasks : ~t.merged => t.attempts <= MaxSyncErrors
    /\ \A i \in 1..Len(queue) : queue[i].retries <= MaxSyncErrors
    /\ upc \in {"layers", "update", "update_fs", "put"}
         => Unwrap(utask).retries < MaxSyncErrors
    /\ dpc \in {"layers", "meta"} => Unwrap(dtask).retries < MaxSyncErrors
    /\ xpc \in {"put", "blobs"} => Unwrap(xtask).retries < MaxSyncErrors

\* the gate has broken for an unmerged upload that was attempted
\* max_sync_errors times
C9_Witness ==
    /\ uresult = "fatal"
    /\ ~Unwrap(utask).merged
    /\ Unwrap(utask).attempts = MaxSyncErrors
    /\ Unwrap(utask).retries = MaxSyncErrors

\* Sum over i in 1..n of min(30, 2^(i-1))
RECURSIVE SumOfSleeps(_)
SumOfSleeps(n) ==
    IF n <= 0 THEN 0
    ELSE SumOfSleeps(n - 1) + (IF 2 ^ (n - 1) < 30 THEN 2 ^ (n - 1) ELSE 30)

QuietWorker ==
    /\ batch = EmptyBatch /\ snapshot = None
    /\ upc = "done" /\ utask = None /\ uprev = {}
    /\ dpc = "done" /\ dtask = None
    /\ xpc = "done" /\ xtask = None
    /\ uresult = "none" /\ dresult = "none" /\ xresult = "none"
    /\ status = None /\ nsched = 0 /\ nfail = 0 /\ gcLayers = {}
    /\ bk = IdleBackoff

InitStartup ==
    /\ \E lm \in {None} \cup {Some(m) : m \in Metas},
          lf \in SUBSET Layers,
          part \in {None} \cup {Some([metadata |-> m, layers |-> ls]) :
                                  m \in Metas, ls \in SUBSET Layers} :
         /\ (lm = None) => (lf = {})
         /\ localMeta = lm /\ localFiles = lf /\ remote = part
         /\ blobs = (IF IsSome(part) THEN Unwrap(part).layers ELSE {})
    /\ everPut = blobs
    /\ lpc = "start"
    /\ index = None /\ queue = <<>> /\ sq = EmptyQueue /\ initStatus = None
    /\ fatal_task_failures = 0
    /\ OthersIdle
    /\ QuietWorker

StartupUnchanged ==
    UNCHANGED <<remote, blobs, localFiles, localMeta, batch, snapshot, upc,
                utask, uprev, dpc, dtask, xpc, xtask, uresult, dresult,
                xresult, status, everPut, nfail, gcLayers, bk,
                fatal_task_failures, pushing, nb, workers, kp, bm>>

\* start_local_timeline_sync with remote storage configured:
\* spawn_storage_sync_thread initialises the queue, fetches the index parts
\* of the local timelines (a failed fetch is only logged), builds the index
\* and runs schedule_first_sync_tasks.
StartWithRemote ==
    /\ lpc = "start"
    /\ \E fetch_ok \in BOOLEAN :
         LET entry == IF IsSome(localMeta) /\ IsSome(remote) /\ fetch_ok
                      THEN Some(EntryOfPart(Unwrap(remote))) ELSE None
             started == [StartedQueue EXCEPT !.ret = "ok"]
         IN  /\ sq' = started
             /\ IF IsSome(localMeta)
                THEN /\ index' = FirstIndex(localFiles, entry)
                     /\ queue' = PushAll(started, <<>>,
                                   FirstSyncTasks(Unwrap(localMeta), localFiles, entry))
                     /\ initStatus' = Some(FirstStatus(localFiles, entry))
                ELSE /\ index' = None /\ queue' = <<>> /\ initStatus' = None
    /\ lpc' = "recv"
    /\ UNCHANGED nsched
    /\ StartupUnchanged

\* start_local_timeline_sync without remote storage: no thread, no
\* sync_queue::init, RemoteIndex::empty(), LocallyComplete for every local
\* timeline.
StartWithoutRemote ==
    /\ lpc = "start"
    /\ index' = None /\ queue' = <<>> /\ sq' = sq
    /\ initStatus' = (IF IsSome(localMeta) THEN Some("LocallyComplete") ELSE None)
    /\ lpc' = "off"
    /\ UNCHANGED nsched
    /\ StartupUnchanged

\* schedule_layer_upload / download / delete after startup
StartupSchedule ==
    /\ lpc \in {"recv", "off"}
    /\ nsched < MaxSchedules
    /\ nsched' = nsched + 1
    /\ \E task \in {UploadTask({l}, localMeta) : l \in Layers}
                    \cup {DownloadTask({})}
                    \cup {DeleteTask({l}) : l \in Layers} :
         queue' = SenderPush(sq, queue, task)
    /\ UNCHANGED <<index, sq, initStatus, lpc>>
    /\ StartupUnchanged

NextStartup == StartWithRemote \/ StartWithoutRemote \/ StartupSchedule

SpecStartup == InitStartup /\ [][NextStartup]_vars

\* ------------------------------------------------------------------ sync_queue alone
\* The sync_queue module for tasks of several timelines: init, push and
\* next_task_batch on the statics sq.  An element of the channel is
\* [id, task] with id = <<tenant_id, timeline_id>>.
Tenants == {"tenant1", "tenant2", "tenant3"}
SyncIds == {<<t, "timeline1">> : t \in Tenants} \cup {<<"tenant1", "timeline2">>}

\* tasks as schedule_layer_* make them and as a failed attempt re-enqueues them
QueueTasks ==
    { UploadTask({"L2"}, None),
      UploadTask({"L1"}, Some([lsn |-> 1, tag |-> "b"])),
      UploadTask({"L1"}, Some([lsn |-> 2, tag |-> "b"])),
      Retried(UploadedLayers(UploadTask(Layers, Some([lsn |-> 1, tag |-> "a"])), {"L2"})),
      DownloadTask({}),
      Retried(DownloadTask({"L1"})),
      DeleteTask({"L1"}),
      Retried(DeletedLayers(DeleteTask(Layers), {"L2"})) }

\* Variant of SenderInit: a second init replaces the sender.
SenderInitOverwrites(s, sender) ==
    [s EXCEPT !.sender = Some(sender), !.ret = "ok", !.tasks = <<>>]

\* sync_queue::init: OnceCell::set; an error when SENDER is already set.
SenderInit(s, sender) ==
    IF IsSome(s.sender) THEN [s EXCEPT !.ret = "err", !.tasks = <<>>]
    ELSE [s EXCEPT !.sender = Some(sender), !.ret = "ok", !.tasks = <<>>]

\* sync_queue::push: the statics after push(id, task) and what it returned.
QueuePushed(s, id, task) ==
    [s EXCEPT !.channel = SenderPush(s, s.channel, [id |-> id, task |-> task]),
              !.length = IF IsSome(s.sender) THEN s.length + 1 ELSE s.length,
              !.ret = IF IsSome(s.sender) THEN "true" ELSE "false",
              !.tasks = <<>>]

\* Variant of AddToTasks: the batch of the SyncId is replaced by a new one.
AddToTasksReplaces(tasks, id, task) ==
    (id :> BatchAdd(EmptyBatch, task)) @@ tasks

\* tasks.entry(sync_id).or_default().add(new_task)
AddToTasks(tasks, id, task) ==
    IF id \in DOMAIN tasks
    THEN [tasks EXCEPT ![id] = BatchAdd(@, task)]
    ELSE (id :> BatchAdd(EmptyBatch, task)) @@ tasks

\* next_task_batch after its first task: n elements of q are taken; more
\* are taken while batched_timelines.len() < max_timelines_to_sync and
\* try_recv finds one.
RECURSIVE TakeMore(_, _, _, _, _)
TakeMore(q, n, tasks, batched_timelines, max_timelines_to_sync) ==
    IF Cardinality(batched_timelines) >= max_timelines_to_sync \/ n = Len(q)
    THEN [tasks |-> tasks, taken |-> n]
    ELSE TakeMore(q, n + 1, AddToTasks(tasks, q[n + 1].id, q[n + 1].task),
                  batched_timelines \cup {q[n + 1].id[2]}, max_timelines_to_sync)

\* sync_queue::next_task_batch on a channel that is not empty
TakeBatch(q, max_timelines_to_sync) ==
    TakeMore(q, 1, AddToTasks(<<>>, q[1].id, q[1].task), {q[1].id[2]},
             max_timelines_to_sync)

InitQueue ==
    /\ sq = EmptyQueue
    /\ queue = <<>> /\ index = None /\ remote = None /\ blobs = {}
    /\ localFiles = {} /\ localMeta = None /\ everPut = {}
    /\ lpc = "recv" /\ initStatus = None
    /\ fatal_task_failures = 0
    /\ OthersIdle
    /\ QuietWorker

QueueUnchanged ==
    UNCHANGED <<queue, index, remote, blobs, localFiles, localMeta, lpc, batch,
                snapshot, upc, utask, uprev, dpc, dtask, xpc, xtask, uresult,
                dresult, xresult, status, nsched, everPut, nfail, gcLayers,
                bk, initStatus,
                   fatal_task_failures, pushing, nb, workers, kp, bm>>

\* sync_queue::init
QueueInit ==
    /\ \E sender \in {"sender1", "sender2"} : sq' = SenderInit(sq, sender)
    /\ QueueUnchanged

\* sync_queue::push
QueuePush ==
    /\ Len(sq.channel) < MaxQueue
    /\ \E id \in SyncIds, task \in QueueTasks : sq' = QueuePushed(sq, id, task)
    /\ QueueUnchanged

\* sync_queue::next_task_batch: awaits while the channel is empty
QueueNextTaskBatch ==
    /\ IsSome(sq.sender) /\ sq.channel # <<>>
    /\ LET r == TakeBatch(sq.channel, MaxConcurrentSyncs)
       IN  sq' = [sq EXCEPT !.channel = SubSeq(sq.channel, r.taken + 1, Len(sq.channel)),
                            !.length = sq.length - r.taken,
                            !.ret = "batch",
                            !.tasks = r.tasks]
    /\ QueueUnchanged

NextQueue == QueueInit \/ QueuePush \/ QueueNextTaskBatch

SpecQueue == InitQueue /\ [][NextQueue]_vars

\* the steps of the upload branch, of the download branch and of the delete
\* part of the worker
UploadStep == UploadGate \/ UploadFailPut \/ UploadLayers \/ UploadUpdate \/ UploadPut
DownloadStep == DownloadGate \/ DownloadLayers \/ DownloadMeta
DeleteStep == DeleteGate \/ DeleteFailPut \/ DeletePut \/ DeleteBlobs

\* C11: within a step the upload and the download branch are both able to
\* move whenever they have not returned, whatever the position of the other
\* branch; the delete task is untouched, its retry gate included, until both
\* branches have returned, and while it runs both stay returned.
C11_JoinThenDelete ==
    /\ (lpc = "step" /\ upc # "done") => ENABLED UploadStep
    /\ (lpc = "step" /\ dpc # "done") => ENABLED DownloadStep
    /\ (lpc = "step" /\ xpc = "wait") => xtask = batch.delete
    /\ (lpc = "step" /\ xpc # "wait") => (upc = "done" /\ dpc = "done")
    /\ (lpc = "step" /\ xpc = "wait" /\ IsSome(xtask) /\ ~(upc = "done" /\ dpc = "done"))
         => ~ENABLED DeleteStep

\* the upload has reached its index part PUT while the download of the same
\* batch is between its layers and the metadata, and the delete waits
C11_Witness ==
    /\ lpc = "step" /\ upc = "put" /\ dpc = "meta"
    /\ xpc = "wait" /\ IsSome(xtask)

\* C12: the loop exits only at a batch boundary: when it exits, no worker
\* is inside a step.
C12_ExitAtBoundary ==
    [][ (lpc' = "exited" /\ lpc # "exited") => lpc = "recv" ]_vars

\* C13: a failing operation never stops the loop or the worker: a branch
\* that fails re-enqueues its task with one more retry, a task dropped by
\* the gate is not re-enqueued, every counted failure is one of the two, and
\* a worker inside a step can always take a step.
C13_FailuresStayInWorker ==
    /\ [](lpc \in {"recv", "step"})
    /\ [](lpc = "step" => ENABLED (UploadStep \/ DownloadStep \/ DeleteStep \/ FinishStep))
    /\ [][ /\ (uresult' = "failed" /\ uresult # "failed") =>
                /\ queue' = Append(queue, Unwrap(utask'))
                /\ Unwrap(utask').retries = Unwrap(utask).retries + 1
           /\ (dresult' = "failed" /\ dresult # "failed") =>
                /\ queue' = Append(queue, Unwrap(dtask'))
                /\ Unwrap(dtask').retries = Unwrap(dtask).retries + 1
           /\ (xresult' = "failed" /\ xresult # "failed") =>
                /\ queue' = Append(queue, Unwrap(xtask'))
                /\ Unwrap(xtask').retries = Unwrap(xtask).retries + 1
           /\ ((uresult' = "fatal" /\ uresult # "fatal")
                 \/ (dresult' = "fatal" /\ dresult # "fatal")
                 \/ (xresult' = "fatal" /\ xresult # "fatal")) => queue' = queue
           /\ nfail' > nfail =>
                /\ lpc' = "step"
                /\ \/ uresult' = "failed" /\ uresult # "failed"
                   \/ dresult' = "failed" /\ dresult # "failed"
                   \/ xresult' = "failed" /\ xresult # "failed"
                   \/ upc = "fail_put" \/ xpc = "fail_put"
         ]_vars

\* the index part PUT of a delete failed: the task is back in the queue with
\* one more retry and the step goes on
C13_Witness ==
    /\ lpc = "step" /\ xresult = "failed" /\ xpc = "done"
    /\ ~Unwrap(xtask).deletion_registered
    /\ queue # <<>> /\ queue[Len(queue)] = Unwrap(xtask)
    /\ Unwrap(xtask).retries = 1 /\ nfail >= 1

\* C14: a step holds a Downloaded status update only if its batch had a
\* download task whose attempt fetched every layer of the entry, updated the
\* local metadata and cleared awaits_download; a step without a download
\* task, or whose download aborted, failed or was dropped by the gate, holds
\* no update, and the update of a step is one Option.
C14_DownloadedOnlyOnCommit ==
    /\ status \in {None, Some("Downloaded")}
    /\ IsSome(status) =>
         /\ lpc = "step" /\ IsSome(batch.download) /\ dresult = "downloaded"
         /\ IsSome(snapshot) /\ Unwrap(snapshot).stored_files \subseteq localFiles
         /\ OptLsn(localMeta) >= Unwrap(snapshot).metadata.lsn
         /\ IsSome(index) /\ ~Unwrap(index).awaits_download
    /\ (lpc = "step" /\ ~IsSome(batch.download)) => status = None
    /\ dresult \in {"aborted", "failed", "fatal", "none"} => status = None

\* a download that had been awaited committed and its step holds the update
C14_Witness ==
    /\ status = Some("Downloaded")
    /\ Unwrap(snapshot).awaits_download
    /\ IsSome(batch.upload) /\ uresult = "failed"

\* the tasks of one kind in the queue
TasksOfKind(kind) == {i \in 1..Len(queue) : queue[i].kind = kind}

\* startup has returned with the sync loop started and nothing was
\* scheduled since
JustStarted == lpc = "recv" /\ nsched = 0

\* C15: after startup, a local timeline with a remote index entry has status
\* NeedsSync, awaits_download set and exactly one Download task, skipping
\* the local files, when the entry stores a layer that is not local;
\* otherwise it has status LocallyComplete, awaits_download unset and no
\* Download task.
C15_StartupDownload ==
    (JustStarted /\ IsSome(localMeta) /\ IsSome(index)) =>
        IF Unwrap(index).stored_files \ localFiles # {}
        THEN /\ initStatus = Some("NeedsSync")
             /\ Unwrap(index).awaits_download
             /\ Cardinality(TasksOfKind("Download")) = 1
             /\ \A i \in TasksOfKind("Download") :
                  queue[i].layers_to_skip = localFiles /\ queue[i].retries = 0
        ELSE /\ initStatus = Some("LocallyComplete")
             /\ ~Unwrap(index).awaits_download
             /\ TasksOfKind("Download") = {}

\* a timeline with one local layer and another layer stored remotely has
\* been started: it needs sync and both a download and an upload are queued
C15_Witness ==
    /\ JustStarted /\ IsSome(index)
    /\ localFiles = {"L1"} /\ Unwrap(index).stored_files = {"L2"}
    /\ initStatus = Some("NeedsSync") /\ Len(queue) = 2

C17_NoRemoteStorage ==
    /\ [](lpc = "off" =>
            /\ sq = EmptyQueue /\ index = None /\ queue = <<>>
            /\ initStatus = (IF IsSome(localMeta) THEN Some("LocallyComplete") ELSE None))
    /\ [][ lpc = "off" =>
             /\ lpc' = "off"
             /\ <<queue, index, remote, blobs, localFiles, localMeta, sq, initStatus>>' =
                <<queue, index, remote, blobs, localFiles, localMeta, sq, initStatus>>
         ]_vars

\* a schedule_layer_* call was made after a start without remote storage
C17_Witness ==
    /\ lpc = "off" /\ nsched = MaxSchedules
    /\ IsSome(localMeta) /\ IsSome(remote) /\ localFiles # {}

C19_BatchWithinLimit ==
    sq.ret = "batch" => Cardinality(DOMAIN sq.tasks) <= MaxConcurrentSyncs

\* the slot of a SyncTaskBatch for a kind of task
SlotOf(b, kind) ==
    CASE kind = "Upload" -> b.upload
      [] kind = "Download" -> b.download
      [] kind = "Delete" -> b.delete

\* the layer sets of a task, by name
LayerSets(task) ==
    CASE task.kind = "Upload" ->
           [layers_to_upload |-> task.layers_to_upload,
            uploaded_layers |-> task.uploaded_layers]
      [] task.kind = "Download" -> [layers_to_skip |-> task.layers_to_skip]
      [] task.kind = "Delete" ->
           [layers_to_delete |-> task.layers_to_delete,
            deleted_layers |-> task.deleted_layers]

\* C20: in the batch that next_task_batch makes of the elements it took
\* off the channel, the slot of a SyncId and a kind is filled exactly when
\* a taken element has that SyncId and kind; each layer set of the task in
\* the slot is the union of that set over exactly those elements and its
\* retries is their minimum.  Elements of another kind or another SyncId
\* contribute nothing to it.
C20_MergeUnionMin ==
    [][ sq'.ret = "batch" /\ Len(sq'.channel) < Len(sq.channel) =>
          LET taken == SubSeq(sq.channel, 1, Len(sq.channel) - Len(sq'.channel))
              from(id, kind) == {i \in 1..Len(taken) :
                                    taken[i].id = id /\ taken[i].task.kind = kind}
          IN  /\ DOMAIN sq'.tasks = {taken[i].id : i \in 1..Len(taken)}
              /\ \A id \in DOMAIN sq'.tasks :
                   \A kind \in {"Upload", "Download", "Delete"} :
                      LET slot == SlotOf(sq'.tasks[id], kind)
                      IN  /\ IsSome(slot) <=> from(id, kind) # {}
                          /\ IsSome(slot) =>
                               /\ Unwrap(slot).kind = kind
                               /\ \A i \in from(id, kind) :
                                     Unwrap(slot).retries <= taken[i].task.retries
                               /\ \E i \in from(id, kind) :
                                     Unwrap(slot).retries = taken[i].task.retries
                               /\ \A f \in DOMAIN LayerSets(Unwrap(slot)) :
                                     LayerSets(Unwrap(slot))[f] =
                                       UNION {LayerSets(taken[i].task)[f] :
                                                i \in from(id, kind)} ]_vars

\* a batch of two SyncIds in which a fresh and a retried upload of one
\* SyncId were merged and a delete of the other SyncId was not
C20_Witness ==
    /\ sq.ret = "batch"
    /\ DOMAIN sq.tasks = {<<"tenant1", "timeline1">>, <<"tenant1", "timeline2">>}
    /\ IsSome(sq.tasks[<<"tenant1", "timeline1">>].upload)
    /\ Unwrap(sq.tasks[<<"tenant1", "timeline1">>].upload).merged
    /\ Unwrap(sq.tasks[<<"tenant1", "timeline1">>].upload).retries = 0
    /\ Unwrap(sq.tasks[<<"tenant1", "timeline1">>].upload).layers_to_upload = Layers
    /\ Unwrap(sq.tasks[<<"tenant1", "timeline1">>].upload).uploaded_layers = {"L2"}
    /\ ~IsSome(sq.tasks[<<"tenant1", "timeline1">>].delete)
    /\ IsSome(sq.tasks[<<"tenant1", "timeline2">>].delete)
    /\ ~IsSome(sq.tasks[<<"tenant1", "timeline2">>].upload)

\* ------------------------------------------------------------------ C21 .. C30
\* the delete tasks among the first n tasks of a queue
TakenDeletes(q, n) == {i \in 1..n : q[i].kind = "Delete"}

\* C21: the delete task of a batch has deletion_registered set exactly
\* when one of the delete tasks merged into it had, whatever their order
\* in the queue.
C21_RegisteredIfEither ==
    [][ (lpc = "recv" /\ lpc' = "step" /\ IsSome(batch'.delete)) =>
          (Unwrap(batch'.delete).deletion_registered
             <=> \E i \in TakenDeletes(queue, BatchTaken(queue)) :
                    queue[i].deletion_registered) ]_vars

\* a task without its history fields
TaskContent(task) == [task EXCEPT !.attempts = 0, !.merged = FALSE]

\* a SyncTaskBatch without the history fields of its tasks
BatchContent(b) ==
    [upload |-> IF IsSome(b.upload) THEN Some(TaskContent(Unwrap(b.upload))) ELSE None,
     download |-> IF IsSome(b.download) THEN Some(TaskContent(Unwrap(b.download))) ELSE None,
     delete |-> IF IsSome(b.delete) THEN Some(TaskContent(Unwrap(b.delete))) ELSE None]

\* next_task_batch: the map made of the first n elements of a channel
RECURSIVE TasksOf(_, _)
TasksOf(q, n) ==
    IF n = 0 THEN <<>> ELSE AddToTasks(TasksOf(q, n - 1), q[n].id, q[n].task)

\* C22: when the last task next_task_batch adds to a batch equals the task
\* of its kind that the batch already holds for its SyncId, the batch is
\* what it was before the add: same layer sets, metadata, retries and
\* deletion_registered, for every SyncId and kind.
C22_MergeIdempotent ==
    [][ sq'.ret = "batch" /\ Len(sq'.channel) + 1 < Len(sq.channel) =>
          LET n == Len(sq.channel) - Len(sq'.channel)
              e == sq.channel[n]
              before == TasksOf(sq.channel, n - 1)
          IN  ( /\ e.id \in DOMAIN before
                /\ IsSome(SlotOf(before[e.id], e.task.kind))
                /\ TaskContent(Unwrap(SlotOf(before[e.id], e.task.kind)))
                     = TaskContent(e.task) )
              => /\ DOMAIN sq'.tasks = DOMAIN before
                 /\ \A id \in DOMAIN before :
                      BatchContent(sq'.tasks[id]) = BatchContent(before[id]) ]_vars

\* a batch made only of equal fresh uploads of one SyncId
C22_Witness ==
    /\ sq.ret = "batch" /\ sq.channel = <<>>
    /\ DOMAIN sq.tasks = {<<"tenant2", "timeline1">>}
    /\ sq.tasks[<<"tenant2", "timeline1">>].download = None
    /\ sq.tasks[<<"tenant2", "timeline1">>].delete = None
    /\ IsSome(sq.tasks[<<"tenant2", "timeline1">>].upload)
    /\ Unwrap(sq.tasks[<<"tenant2", "timeline1">>].upload).merged
    /\ TaskContent(Unwrap(sq.tasks[<<"tenant2", "timeline1">>].upload))
         = UploadTask({"L2"}, None)

\* the retry gate breaks for the upload task of the step
UploadGateBreak ==
    /\ lpc = "step" /\ upc = "gate" /\ upc' # "gate"
    /\ GateBreaks(Unwrap(utask).retries, MaxSyncErrors)

\* C23: when the gate breaks for an upload task, the task is not
\* re-enqueued, its layers_to_upload are added to upload_failed_files of
\* the entry, no blob is PUT or deleted, and stored_files and metadata of
\* the entry are what they were.
C23_UploadGateBreak ==
    [][ (UploadGateBreak /\ IsSome(index)) =>
          /\ queue' = queue
          /\ blobs' = blobs
          /\ IsSome(index')
          /\ Unwrap(index').upload_failed_files =
               Unwrap(index).upload_failed_files \cup Unwrap(utask).layers_to_upload
          /\ Unwrap(index').stored_files = Unwrap(index).stored_files
          /\ Unwrap(index').metadata = Unwrap(index).metadata ]_vars

\* the retry gate breaks for the download task of the step
DownloadGateBreak ==
    /\ lpc = "step" /\ dpc = "gate" /\ dpc' # "gate"
    /\ GateBreaks(Unwrap(dtask).retries, MaxSyncErrors)

\* C24: when the gate breaks for a download task, awaits_download of the
\* entry is cleared and nothing else of the entry changes, the task is not
\* re-enqueued, no layer file and no local metadata is written and the
\* download branch ends; the step then emits no status update and the
\* task is not in the queue.
C24_DownloadGateBreak ==
    /\ [](dresult = "fatal" =>
            /\ status = None /\ dpc = "done"
            /\ IsSome(index) => ~Unwrap(index).awaits_download
            /\ \A i \in 1..Len(queue) : queue[i] # Unwrap(dtask))
    /\ [][ DownloadGateBreak =>
             /\ dresult' = "fatal" /\ dpc' = "done"
             /\ queue' = queue
             /\ localFiles' = localFiles /\ localMeta' = localMeta
             /\ status' = None
             /\ IsSome(index') <=> IsSome(index)
             /\ IsSome(index) =>
                  Unwrap(index') = [Unwrap(index) EXCEPT !.awaits_download = FALSE]
         ]_vars

\* the gate broke for the download task of a timeline that awaited its
\* download when the step began
C24_Witness ==
    /\ dresult = "fatal" /\ IsSome(dtask)
    /\ IsSome(snapshot) /\ Unwrap(snapshot).awaits_download
    /\ IsSome(index) /\ ~Unwrap(index).awaits_download

\* a blob DELETE of the delete task fails and the task is re-enqueued
DeleteBlobsFail == lpc = "step" /\ xpc = "blobs" /\ xresult' = "failed"

\* the gate lets a delete task through whose deletion is registered
RegisteredDeleteStarts ==
    /\ lpc = "step" /\ xpc = "wait" /\ xpc' # "wait" /\ IsSome(xtask)
    /\ Unwrap(xtask).deletion_registered
    /\ ~GateBreaks(Unwrap(xtask).retries, MaxSyncErrors)

\* the steps of the worker on a registered delete task: a failed blob phase
\* re-enqueues the task registered and with one more retry; a registered
\* task that passes the gate goes to its blob phase without a change of
\* the entry or of the index part; the blob phase removes only blobs of
\* layers_to_delete that are not in deleted_layers.
RegisteredRetrySteps ==
    /\ DeleteBlobsFail =>
         /\ Len(queue') = Len(queue) + 1
         /\ queue'[Len(queue')].kind = "Delete"
         /\ queue'[Len(queue')].deletion_registered
         /\ queue'[Len(queue')].retries = Unwrap(xtask).retries + 1
    /\ RegisteredDeleteStarts =>
         /\ index' = index /\ remote' = remote /\ xpc' = "blobs"
    /\ (lpc = "step" /\ xpc = "blobs" /\ xpc' # "blobs") =>
         /\ blobs \ blobs' \subseteq DeleteTodo(Unwrap(xtask))
         /\ index' = index /\ remote' = remote

\* C25: a failed blob phase re-enqueues the delete task registered, and a
\* registered retry that next_task_batch takes is a registered task of the
\* batch, which changes neither the entry nor the index part and deletes
\* only blobs of layers_to_delete that are not in deleted_layers.
C25_RegisteredRetry ==
    [][ /\ RegisteredRetrySteps
        /\ (lpc = "recv" /\ lpc' = "step") =>
             \A i \in TakenDeletes(queue, BatchTaken(queue)) :
                queue[i].deletion_registered =>
                   Unwrap(batch'.delete).deletion_registered ]_vars

\* no task is queued or in flight
Quiescent == lpc = "recv" /\ queue = <<>>

\* C26: when no task is queued or in flight, the index part in the store
\* is the projection of the in-memory entry, and there is none when there
\* is no entry.
C26_RemoteMatchesIndex ==
    Quiescent =>
        remote = (IF IsSome(index) THEN Some(PartOfEntry(Unwrap(index))) ELSE None)

\* C27: when no task is queued or in flight, no path is both in
\* stored_files and in upload_failed_files of the entry.
C27_StoredAndFailedDisjoint ==
    (Quiescent /\ IsSome(index)) =>
        Unwrap(index).stored_files \cap Unwrap(index).upload_failed_files = {}

\* the retry gate breaks for the delete task of the step
DeleteGateBreak ==
    /\ lpc = "step" /\ xpc = "wait" /\ xpc' # "wait" /\ IsSome(xtask)
    /\ GateBreaks(Unwrap(xtask).retries, MaxSyncErrors)

\* C29: a step in which the retry gate breaks for a task adds 1 to
\* fatal_task_failures and no other step changes the counter.
C29_FatalFailuresCounted ==
    [][ fatal_task_failures' =
          (IF UploadGateBreak \/ DownloadGateBreak \/ DeleteGateBreak
           THEN fatal_task_failures + 1 ELSE fatal_task_failures) ]_vars

\* the delete task of the step has passed its retry gate
DeleteExecuted ==
    /\ lpc = "step" /\ IsSome(xtask)
    /\ xpc \in {"put", "blobs"} \/ xresult \in {"ok", "failed"}

\* C30: the delete task of a batch is executed only if the upload task of
\* the batch, when there is one, has completed successfully.
C30_DeleteAfterSuccessfulUpload ==
    (DeleteExecuted /\ IsSome(batch.upload)) => uresult = "ok"

\* ------------------------------------------------------------------ the loop left alone
\* The loop from the moment after which nothing is scheduled from outside
\* and no checkpoint is made, with an object store that may fail any
\* number of operations.  The queue holds the tasks of startup followed by
\* the tasks of the schedule_layer_* calls made until then.
ScheduledTasks(local_files, local_metadata) ==
    {UploadTask({l}, meta) : l \in local_files, meta \in {None, local_metadata}}
      \cup {DownloadTask({})}
      \cup {DeleteTask({l}) : l \in Layers}

\* sequences of at most n tasks of T
RECURSIVE CallsUpTo(_, _)
CallsUpTo(T, n) ==
    IF n = 0 THEN {<<>>}
    ELSE CallsUpTo(T, n - 1)
           \cup {Append(c, t) : c \in CallsUpTo(T, n - 1), t \in T}

\* sequences of at most MaxSchedules calls; a layer handed to
\* schedule_layer_delete is not uploaded again
ScheduledCalls(local_files, local_metadata) ==
    {c \in CallsUpTo(ScheduledTasks(local_files, local_metadata), MaxSchedules) :
        \A i, j \in 1..Len(c) :
           ~(/\ i < j /\ c[i].kind = "Delete" /\ c[j].kind = "Upload"
             /\ c[j].layers_to_upload \subseteq c[i].layers_to_delete)}

RECURSIVE DeletedBy(_)
DeletedBy(calls) ==
    IF calls = <<>> THEN {}
    ELSE (IF Head(calls).kind = "Delete" THEN Head(calls).layers_to_delete ELSE {})
           \cup DeletedBy(Tail(calls))

InitOutage ==
    /\ \E lf \in SUBSET Layers, lm \in {m \in OldMetas : m.lsn = 1},
          part \in {None} \cup {Some([metadata |-> m, layers |-> ls]) :
                                  m \in OldMetas, ls \in SUBSET Layers} :
         \E calls \in ScheduledCalls(lf, Some(lm)) :
            /\ localFiles = lf
            /\ localMeta = Some(lm)
            /\ remote = part
            /\ blobs = (IF IsSome(part) THEN Unwrap(part).layers ELSE {})
            /\ index = FirstIndex(lf, IF IsSome(part)
                                      THEN Some(EntryOfPart(Unwrap(part))) ELSE None)
            /\ queue = FirstSyncTasks(lm, lf, IF IsSome(part)
                                              THEN Some(EntryOfPart(Unwrap(part)))
                                              ELSE None) \o calls
            /\ nsched = Len(calls)
            /\ gcLayers = DeletedBy(calls)
    /\ everPut = blobs
    /\ lpc = "recv"
    /\ batch = EmptyBatch /\ snapshot = None
    /\ upc = "done" /\ utask = None /\ uprev = {}
    /\ dpc = "done" /\ dtask = None
    /\ xpc = "done" /\ xtask = None
    /\ uresult = "none" /\ dresult = "none" /\ xresult = "none"
    /\ status = None /\ nfail = 0
    /\ bk = IdleBackoff /\ sq = StartedQueue /\ initStatus = None
    /\ fatal_task_failures = 0
    /\ OthersIdle

\* The store stays down: nfail counts the failed operations against
\* MaxFailures, and the count starts again.
StoreStaysDown ==
    /\ nfail > 0
    /\ nfail' = 0
    /\ UNCHANGED <<queue, index, remote, blobs, localFiles, localMeta, lpc, batch,
                   snapshot, upc, utask, uprev, dpc, dtask, xpc, xtask, uresult,
                   dresult, xresult, status, nsched, everPut, gcLayers, bk, sq,
                   initStatus, fatal_task_failures, pushing, nb, workers, kp, bm>>

\* a step of the loop thread: the batch is taken, a branch of the worker
\* moves, or the step returns
LoopStep == NextTaskBatch \/ UploadStep \/ DownloadStep \/ DeleteStep \/ FinishStep

NextOutage == LoopStep \/ StoreStaysDown

\* The loop thread is scheduled as long as it can move: its runtime polls
\* the loop future, every storage and file operation returns, and
\* validate_task_retries sleeps a bounded time.
SpecOutage == InitOutage /\ [][NextOutage]_vars /\ WF_vars(LoopStep)

\* C28: when nothing more is scheduled from outside, the queue is
\* eventually empty with no step in progress and stays so, however many
\* operations of the object store fail.
C28_QueueDrains == <>[]Quiescent

\* the retry gate has broken for the upload, the download and the delete
\* task of one step, each after max_sync_errors failed attempts
C28_Witness ==
    /\ lpc = "step" /\ queue = <<>>
    /\ uresult = "fatal" /\ dresult = "fatal" /\ xresult = "fatal"

\* ------------------------------------------------------------------ push and drain, step by step
\* sync_queue::push and sync_queue::next_task_batch at the grain of their
\* operations on the channel and on LENGTH.  push sends and then adds 1 to
\* LENGTH; next_task receives and then subtracts 1; try_recv in the loop of
\* next_task_batch is followed by the same subtraction.  Pushes come from
\* any thread, the drain runs on the loop thread; loop_step calls
\* next_task_batch again after it has returned.
DrainIds ==
    {<<"tenant1", "timeline1">>, <<"tenant2", "timeline1">>, <<"tenant1", "timeline2">>}

DrainTasks ==
    { UploadTask({"L2"}, None),
      Retried(UploadedLayers(UploadTask(Layers, Some([lsn |-> 1, tag |-> "a"])), {"L2"})),
      DeleteTask({"L1"}) }

\* AtomicUsize::fetch_add(1) and fetch_sub(1) wrap around on overflow
FetchAdd(length) == (length + 1) % Pow2(UsizeBits)
FetchSub(length) == (length + Pow2(UsizeBits) - 1) % Pow2(UsizeBits)

\* next_task_batch has been called and awaits its first task
CalledBatcher ==
    [pc |-> "recv", tasks |-> <<>>, batched_timelines |-> {}, taken |-> <<>>]

InitDrain ==
    /\ sq = StartedQueue
    /\ pushing = 0 /\ nb = CalledBatcher
    /\ workers = <<>> /\ kp = None /\ bm = None
    /\ queue = <<>> /\ index = None /\ remote = None /\ blobs = {}
    /\ localFiles = {} /\ localMeta = None /\ everPut = {}
    /\ lpc = "recv" /\ initStatus = None
    /\ fatal_task_failures = 0
    /\ QuietWorker

DrainUnchanged ==
    UNCHANGED <<queue, index, remote, blobs, localFiles, localMeta, lpc, batch,
                snapshot, upc, utask, uprev, dpc, dtask, xpc, xtask, uresult,
                dresult, xresult, status, everPut, nfail, gcLayers,
                bk, initStatus, fatal_task_failures, workers, kp, bm>>

\* push: sender.send((sync_id, new_task))
PushSend ==
    /\ nsched < MaxPushes
    /\ nsched' = nsched + 1
    /\ \E id \in DrainIds, task \in DrainTasks :
         sq' = [sq EXCEPT !.channel = SenderPush(sq, @, [id |-> id, task |-> task])]
    /\ pushing' = pushing + 1
    /\ UNCHANGED nb
    /\ DrainUnchanged

\* push: LENGTH.fetch_add(1, Ordering::Relaxed)
PushCount ==
    /\ pushing > 0
    /\ pushing' = pushing - 1
    /\ sq' = [sq EXCEPT !.length = FetchAdd(@)]
    /\ UNCHANGED <<nb, nsched>>
    /\ DrainUnchanged

\* next_task: receiver.recv().await returns the head of the channel
NextTaskRecv ==
    /\ nb.pc = "recv" /\ sq.channel # <<>>
    /\ sq' = [sq EXCEPT !.channel = Tail(@)]
    /\ nb' = [nb EXCEPT !.pc = "first", !.taken = <<Head(sq.channel)>>]
    /\ UNCHANGED <<pushing, nsched>>
    /\ DrainUnchanged

\* next_task: LENGTH.fetch_sub(1); next_task_batch then starts the batch
\* with SyncTaskBatch::new(first_task)
NextTaskCount ==
    /\ nb.pc = "first"
    /\ sq' = [sq EXCEPT !.length = FetchSub(@)]
    /\ nb' = [nb EXCEPT !.pc = "loop",
                        !.tasks = AddToTasks(<<>>, nb.taken[1].id, nb.taken[1].task),
                        !.batched_timelines = {nb.taken[1].id[2]}]
    /\ UNCHANGED <<pushing, nsched>>
    /\ DrainUnchanged

\* next_task_batch, head of the loop: break when the batch is full;
\* otherwise try_recv, which breaks the loop on TryRecvError::Empty
BatchTryRecv ==
    /\ nb.pc = "loop"
    /\ IF Cardinality(nb.batched_timelines) >= MaxConcurrentSyncs \/ sq.channel = <<>>
       THEN /\ nb' = [nb EXCEPT !.pc = "returned"]
            /\ sq' = [sq EXCEPT !.ret = "batch"]
       ELSE /\ nb' = [nb EXCEPT !.pc = "got", !.taken = Append(@, Head(sq.channel))]
            /\ sq' = [sq EXCEPT !.channel = Tail(@)]
    /\ UNCHANGED <<pushing, nsched>>
    /\ DrainUnchanged

\* next_task_batch, try_recv returned Ok: LENGTH.fetch_sub(1), the task is
\* added to the batch of its SyncId, its timeline_id to batched_timelines
BatchCount ==
    /\ nb.pc = "got"
    /\ LET e == nb.taken[Len(nb.taken)]
       IN  /\ sq' = [sq EXCEPT !.length = FetchSub(@)]
           /\ nb' = [nb EXCEPT !.pc = "loop",
                               !.tasks = AddToTasks(@, e.id, e.task),
                               !.batched_timelines = @ \cup {e.id[2]}]
    /\ UNCHANGED <<pushing, nsched>>
    /\ DrainUnchanged

\* loop_step has processed the batch and calls next_task_batch again
BatchAgain ==
    /\ nb.pc = "returned"
    /\ nb' = CalledBatcher
    /\ sq' = [sq EXCEPT !.ret = "none"]
    /\ UNCHANGED <<pushing, nsched>>
    /\ DrainUnchanged

NextDrain ==
    \/ PushSend \/ PushCount
    \/ NextTaskRecv \/ NextTaskCount \/ BatchTryRecv \/ BatchCount \/ BatchAgain

SpecDrain == InitDrain /\ [][NextDrain]_vars

\* ------------------------------------------------------------------ the loop over several timelines
\* storage_sync_loop and loop_step for tasks of several timelines: a step
\* takes a batch and runs one process_sync_task_batch future per SyncId of
\* the batch, all in one FuturesUnordered, and returns when every future
\* has returned.  A worker is [id, batch, pc]: for each slot of its batch
\* the position of that task, "gate" (validate_task_retries not yet
\* called; "wait" for the delete task, which follows the join of the other
\* two), "sleep" (inside the sleep of validate_task_retries), "run" (past
\* the gate) or "done".  What a task does to the store and to the index is
\* left to Spec: here an attempt succeeds or fails, and a failed attempt
\* re-enqueues the task with retries + 1.
Slots == {"upload", "download", "delete"}

LoopTasks == {UploadTask({"L1"}, None), DownloadTask({}), DeleteTask({"L1"})}

NewWorker(id, b) ==
    [id |-> id, batch |-> b,
     pc |-> [upload |-> IF IsSome(b.upload) THEN "gate" ELSE "done",
             download |-> IF IsSome(b.download) THEN "gate" ELSE "done",
             delete |-> IF IsSome(b.delete) THEN "wait" ELSE "done"]]

\* batched_tasks.into_iter().map(..).collect::<FuturesUnordered<_>>()
RECURSIVE WorkersOf(_)
WorkersOf(tasks) ==
    IF DOMAIN tasks = {} THEN <<>>
    ELSE LET id == CHOOSE x \in DOMAIN tasks : TRUE
         IN  <<NewWorker(id, tasks[id])>>
               \o WorkersOf([x \in DOMAIN tasks \ {id} |-> tasks[x]])

\* process_sync_task_batch has returned
Returned(w) == \A k \in Slots : w.pc[k] = "done"

\* Variant of StepReturns: the step returns with the first future.
StepReturnsWithFirst(ws) == \E i \in 1..Len(ws) : Returned(ws[i])

\* loop_step: while let Some(..) = sync_results.next().await runs until
\* the FuturesUnordered is exhausted
StepReturns(ws) == \A i \in 1..Len(ws) : Returned(ws[i])

\* the task of a slot is at validate_task_retries
AtGate(w, k) ==
    IF k = "delete"
    THEN w.pc[k] = "wait" /\ w.pc.upload = "done" /\ w.pc.download = "done"
    ELSE w.pc[k] = "gate"

\* validate_task_retries: Break, or sleep when current_attempt > 0, or
\* Continue at once
AfterGate(task) ==
    IF GateBreaks(task.retries, MaxSyncErrors) THEN "done"
    ELSE IF SecondsToWait(task.retries) > 0 THEN "sleep" ELSE "run"

InitLoop ==
    /\ sq = StartedQueue
    /\ workers = <<>>
    /\ pushing = 0 /\ nb = None /\ kp = None /\ bm = None
    /\ queue = <<>> /\ index = None /\ remote = None /\ blobs = {}
    /\ localFiles = {} /\ localMeta = None /\ everPut = {}
    /\ lpc = "recv" /\ initStatus = None
    /\ fatal_task_failures = 0
    /\ QuietWorker

LoopUnchanged ==
    UNCHANGED <<queue, index, remote, blobs, localFiles, localMeta, batch,
                snapshot, upc, utask, uprev, dpc, dtask, xpc, xtask, uresult,
                dresult, xresult, status, everPut, gcLayers,
                bk, initStatus, fatal_task_failures, pushing, nb, kp, bm>>

\* schedule_layer_upload / download / delete for any timeline
LoopPush ==
    /\ nsched < MaxPushes
    /\ nsched' = nsched + 1
    /\ \E id \in DrainIds, task \in LoopTasks : sq' = QueuePushed(sq, id, task)
    /\ UNCHANGED <<lpc, workers, nfail>>
    /\ LoopUnchanged

\* loop_step: next_task_batch, then one future per SyncId of the batch
LoopNextTaskBatch ==
    /\ lpc = "recv" /\ sq.channel # <<>>
    /\ LET r == TakeBatch(sq.channel, MaxConcurrentSyncs)
       IN  /\ sq' = [sq EXCEPT !.channel = SubSeq(sq.channel, r.taken + 1, Len(sq.channel)),
                               !.length = sq.length - r.taken,
                               !.ret = "batch",
                               !.tasks = r.tasks]
           /\ workers' = workers \o WorkersOf(r.tasks)
    /\ lpc' = "step"
    /\ UNCHANGED <<nsched, nfail>>
    /\ LoopUnchanged

\* validate_task_retries of the task in slot k of worker i
GateOf(i, k) ==
    /\ AtGate(workers[i], k)
    /\ workers' = [workers EXCEPT ![i].pc[k] = AfterGate(Unwrap(workers[i].batch[k]))]
    /\ UNCHANGED <<sq, lpc, nsched, nfail>>
    /\ LoopUnchanged

\* tokio::time::sleep of validate_task_retries is over
WakeOf(i, k) ==
    /\ workers[i].pc[k] = "sleep"
    /\ workers' = [workers EXCEPT ![i].pc[k] = "run"]
    /\ UNCHANGED <<sq, lpc, nsched, nfail>>
    /\ LoopUnchanged

\* the attempt of the task in slot k of worker i ends: a failed attempt
\* pushes the task with retries + 1
RunOf(i, k) ==
    /\ workers[i].pc[k] = "run"
    /\ workers' = [workers EXCEPT ![i].pc[k] = "done"]
    /\ \E ok \in BOOLEAN :
         /\ Fault(~ok)
         /\ sq' = IF ok THEN sq
                  ELSE QueuePushed(sq, workers[i].id, Retried(Unwrap(workers[i].batch[k])))
    /\ UNCHANGED <<lpc, nsched>>
    /\ LoopUnchanged

WorkerGate == \E i \in 1..Len(workers), k \in Slots : GateOf(i, k)
WorkerWake == \E i \in 1..Len(workers), k \in Slots : WakeOf(i, k)
WorkerRun == \E i \in 1..Len(workers), k \in Slots : RunOf(i, k)

\* loop_step returns: the futures that have returned are gone
LoopStepReturns ==
    /\ lpc = "step" /\ StepReturns(workers)
    /\ workers' = SelectSeq(workers, LAMBDA w : ~Returned(w))
    /\ lpc' = "recv"
    /\ UNCHANGED <<sq, nsched, nfail>>
    /\ LoopUnchanged

NextLoop ==
    \/ LoopPush \/ LoopNextTaskBatch
    \/ WorkerGate \/ WorkerWake \/ WorkerRun
    \/ LoopStepReturns

SpecLoop == InitLoop /\ [][NextLoop]_vars

\* ------------------------------------------------------------------ KeySpace::partition
\* pageserver/src/keyspace.rs.  A Key is a number of 0 .. MaxKey and a
\* Range<Key> is [start, end], end exclusive.  The record kp holds the
\* arguments and the locals of one call of KeySpace::partition.

\* postgres_ffi::BLCKSZ
BLCKSZ == 8192

\* Key::to_i128
ToI128(key) == key

\* Key::add
KeyAdd(key, x) == key + x

\* key_range_size: the number of keys of the range
KeyRangeSize(range) == range.end - range.start

\* the target_size arguments of the calls
TargetSizes == {0, BLCKSZ \div 2, BLCKSZ, 2 * BLCKSZ, 3 * BLCKSZ}

KeyRanges == {r \in [start : 0..MaxKey, end : 0..MaxKey] : r.start < r.end}

\* KeySpace: contiguous ranges of keys, in key order and with no overlap
KeySpaces ==
    {rs \in UNION {[1..n -> KeyRanges] : n \in 0..MaxRanges} :
        \A i \in 1..(Len(rs) - 1) : rs[i].end <= rs[i + 1].start}

\* let target_nblocks = (target_size / BLCKSZ as u64) as usize
TargetNblocks(target_size) == target_size \div BLCKSZ

\* the condition under which the loop over the ranges starts a new partition
StartsNewPart(current_part, current_part_size, current_part_start, this_size, this_start, target_nblocks) ==
    /\ \/ current_part_size + this_size > target_nblocks
       \/ this_start - current_part_start > MAX_LAYER_KEY_RANGE
    /\ current_part # <<>>

\* Variant of RestOfRange: the whole range is pushed after its chunks.
WholeRange(start, range) == range

\* current_part.push(start..range.end)
RestOfRange(start, range) == [start |-> start, end |-> range.end]

\* partition(&self, target_size), up to the loop over self.ranges
Called(ranges, target_size) ==
    [pc |-> "for", ranges |-> ranges, i |-> 1,
     target_nblocks |-> TargetNblocks(target_size),
     parts |-> <<>>, current_part |-> <<>>, current_part_size |-> 0,
     current_part_start |-> 0, remain_size |-> 0, start |-> 0]

InitPartition ==
    /\ \E ranges \in KeySpaces, target_size \in TargetSizes :
          kp = Called(ranges, target_size)
    /\ sq = EmptyQueue /\ pushing = 0 /\ nb = None /\ workers = <<>> /\ bm = None
    /\ queue = <<>> /\ index = None /\ remote = None /\ blobs = {}
    /\ localFiles = {} /\ localMeta = None /\ everPut = {}
    /\ lpc = "recv" /\ initStatus = None
    /\ fatal_task_failures = 0
    /\ QuietWorker

PartitionUnchanged ==
    UNCHANGED <<queue, index, remote, blobs, localFiles, localMeta, lpc, batch,
                snapshot, upc, utask, uprev, dpc, dtask, xpc, xtask, uresult,
                dresult, xresult, status, everPut, nfail, gcLayers,
                nsched, bk, sq, initStatus, fatal_task_failures, pushing, nb,
                workers, bm>>

\* for range in &self.ranges: the head of the loop body, up to the while
ForRange ==
    /\ kp.pc = "for" /\ kp.i <= Len(kp.ranges)
    /\ LET range == kp.ranges[kp.i]
           this_size == KeyRangeSize(range)
           this_start == ToI128(range.start)
           flush == StartsNewPart(kp.current_part, kp.current_part_size,
                                  kp.current_part_start, this_size, this_start,
                                  kp.target_nblocks)
       IN  kp' = [kp EXCEPT
                    !.pc = "while",
                    !.parts = IF flush THEN Append(@, kp.current_part) ELSE @,
                    !.current_part = IF flush THEN <<>> ELSE @,
                    !.current_part_size = IF flush THEN 0 ELSE @,
                    !.current_part_start = IF flush THEN this_start ELSE @,
                    !.remain_size = this_size,
                    !.start = range.start]
    /\ PartitionUnchanged

\* one turn of while remain_size > target_nblocks; parts is a Vec, which
\* holds at most MaxParts elements here
WhileSplit ==
    /\ kp.pc = "while" /\ kp.remain_size > kp.target_nblocks
    /\ Len(kp.parts) < MaxParts
    /\ LET next == KeyAdd(kp.start, kp.target_nblocks)
       IN  kp' = [kp EXCEPT
                    !.parts = Append(@, <<[start |-> kp.start, end |-> next]>>),
                    !.start = next,
                    !.remain_size = @ - kp.target_nblocks]
    /\ PartitionUnchanged

\* the end of the loop body, after the while
WhileDone ==
    /\ kp.pc = "while" /\ kp.remain_size <= kp.target_nblocks
    /\ kp' = [kp EXCEPT
                !.pc = "for",
                !.current_part = Append(@, RestOfRange(kp.start, kp.ranges[kp.i])),
                !.current_part_size = @ + kp.remain_size,
                !.i = @ + 1]
    /\ PartitionUnchanged

\* after the loop: add the last partition, return KeyPartitioning { parts }
PartitionReturns ==
    /\ kp.pc = "for" /\ kp.i > Len(kp.ranges)
    /\ kp' = [kp EXCEPT
                !.pc = "returned",
                !.parts = IF kp.current_part # <<>>
                          THEN Append(@, kp.current_part) ELSE @]
    /\ PartitionUnchanged

NextPartition ==
    \/ ForRange
    \/ WhileSplit
    \/ WhileDone
    \/ PartitionReturns

SpecPartition == InitPartition /\ [][NextPartition]_vars

\* ------------------------------------------------------------------ billing metrics
\* pageserver/src/billing_metrics.rs.  The record bm holds the cache of
\* collect_metrics, the locals of one collect_metrics_task and, as history,
\* the cache before the iteration (before), the metrics handed to
\* client.post in it (posted) and the results of the requests (results).

BillingTenants == <<"tenant1", "tenant2">>

MetricValues == 1..MaxMetric

\* what one Active tenant reports: the last_record_lsn of its timeline, its
\* physical size and its remote size
TenantSizes ==
    [written_size : MetricValues, physical_size : MetricValues,
     remote_size : MetricValues]

BillingMetricsKey(tenant_id, timeline_id, metric) ==
    [tenant_id |-> tenant_id, timeline_id |-> timeline_id, metric |-> metric]

\* the entries pushed onto current_metrics for one tenant
TenantMetrics(tenant_id, sizes) ==
    <<[key |-> BillingMetricsKey(tenant_id, Some("timeline1"), "WrittenSize"),
       value |-> sizes.written_size],
      [key |-> BillingMetricsKey(tenant_id, None, "PhysicalSize"),
       value |-> sizes.physical_size],
      [key |-> BillingMetricsKey(tenant_id, None, "S3StorageSize"),
       value |-> sizes.remote_size]>>

RECURSIVE CurrentMetrics(_, _, _)
\* the loop over the tenants: current_metrics for the Active tenants, from
\* tenant number i on
CurrentMetrics(active, sizes, i) ==
    IF i > Len(BillingTenants) THEN <<>>
    ELSE (IF BillingTenants[i] \in active
          THEN TenantMetrics(BillingTenants[i], sizes[BillingTenants[i]])
          ELSE <<>>) \o CurrentMetrics(active, sizes, i + 1)

\* Variant of IsNewOrUpdated: a metric that is not in the cache is only
\* cached.
IsUpdated(cached, curr_key, curr_val) ==
    curr_key \in DOMAIN cached /\ cached[curr_key] # curr_val

\* the filter's test on what cached_metrics_guard.insert returns: None, or
\* a value other than the current one
IsNewOrUpdated(cached, curr_key, curr_val) ==
    curr_key \notin DOMAIN cached \/ cached[curr_key] # curr_val

\* HashMap::insert
Inserted(cached, curr_key, curr_val) == (curr_key :> curr_val) @@ cached

RECURSIVE FilterMetrics(_, _, _)
\* the loop over current_metrics.iter(): the cache after it and
\* filtered_metrics
FilterMetrics(cached, current, filtered) ==
    IF current = <<>> THEN [cached |-> cached, filtered |-> filtered]
    ELSE LET c == Head(current)
         IN  FilterMetrics(Inserted(cached, c.key, c.value), Tail(current),
                           IF IsNewOrUpdated(cached, c.key, c.value)
                           THEN Append(filtered, c) ELSE filtered)

RECURSIVE Chunks(_, _)
\* slice::chunks
Chunks(s, n) ==
    IF s = <<>> THEN <<>>
    ELSE IF Len(s) <= n THEN <<s>>
    ELSE <<SubSeq(s, 1, n)>> \o Chunks(SubSeq(s, n + 1, Len(s)), n)

\* collect_metrics up to its loop
StartedCollector ==
    [pc |-> "tick", cached_metrics |-> <<>>, current_metrics |-> <<>>,
     chunks |-> <<>>, before |-> <<>>, posted |-> <<>>, results |-> <<>>]

InitMetrics ==
    /\ bm = StartedCollector
    /\ sq = EmptyQueue /\ pushing = 0 /\ nb = None /\ workers = <<>> /\ kp = None
    /\ queue = <<>> /\ index = None /\ remote = None /\ blobs = {}
    /\ localFiles = {} /\ localMeta = None /\ everPut = {}
    /\ lpc = "recv" /\ initStatus = None
    /\ fatal_task_failures = 0
    /\ QuietWorker

MetricsUnchanged ==
    UNCHANGED <<queue, index, remote, blobs, localFiles, localMeta, lpc, batch,
                snapshot, upc, utask, uprev, dpc, dtask, xpc, xtask, uresult,
                dresult, xresult, status, everPut, nfail, gcLayers,
                nsched, bk, sq, initStatus, fatal_task_failures, pushing, nb,
                workers, kp>>

\* ticker.tick() and collect_metrics_task up to the filter: the metrics of
\* the Active tenants are collected
Collect ==
    /\ bm.pc = "tick"
    /\ \E active \in SUBSET {BillingTenants[i] : i \in 1..Len(BillingTenants)} :
       \E sizes \in [active -> TenantSizes] :
          bm' = [bm EXCEPT
                   !.pc = "filter",
                   !.current_metrics = CurrentMetrics(active, sizes, 1),
                   !.before = bm.cached_metrics,
                   !.posted = <<>>, !.results = <<>>]
    /\ MetricsUnchanged

\* ticker.tick() and collect_metrics_task when get_tenant or get_remote_size
\* returns an error: the task returns it, current_metrics is dropped, and
\* collect_metrics returns the error too
CollectFails ==
    /\ bm.pc = "tick"
    /\ bm' = [bm EXCEPT
                !.pc = "failed",
                !.current_metrics = <<>>,
                !.before = bm.cached_metrics,
                !.posted = <<>>, !.results = <<>>]
    /\ MetricsUnchanged

\* task_mgr::shutdown_watcher() wins the select!
Cancelled ==
    /\ bm.pc = "tick"
    /\ bm' = [bm EXCEPT !.pc = "stopped"]
    /\ MetricsUnchanged

\* the filter under the lock of the cache, and the early return when
\* filtered_metrics is empty
Filter ==
    /\ bm.pc = "filter"
    /\ LET f == FilterMetrics(bm.cached_metrics, bm.current_metrics, <<>>)
       IN  bm' = [bm EXCEPT
                    !.cached_metrics = f.cached,
                    !.chunks = Chunks(f.filtered, CHUNK_SIZE),
                    !.pc = IF f.filtered = <<>> THEN "tick" ELSE "send"]
    /\ MetricsUnchanged

\* one turn of for chunk in chunks: the request and its result, which is
\* only logged
SendChunk ==
    /\ bm.pc = "send"
    /\ \E ok \in BOOLEAN :
          bm' = [bm EXCEPT
                   !.posted = @ \o Head(bm.chunks),
                   !.results = Append(@, ok),
                   !.chunks = Tail(@),
                   !.pc = IF Tail(bm.chunks) = <<>> THEN "tick" ELSE "send"]
    /\ MetricsUnchanged

NextMetrics ==
    \/ Collect
    \/ CollectFails
    \/ Cancelled
    \/ Filter
    \/ SendChunk

SpecMetrics == InitMetrics /\ [][NextMetrics]_vars

\* ------------------------------------------------------------------ C31 .. C40
\* C31: the upload task of a batch carries no metadata when none of the
\* upload tasks merged into it did; otherwise it carries the metadata of
\* the merged upload task whose disk_consistent_lsn is greatest, the one
\* added last among those of that LSN.  A task without metadata added
\* after one with metadata does not replace it.
C31_MergeKeepsNewestMetadata ==
    [][ sq'.ret = "batch" /\ Len(sq'.channel) < Len(sq.channel) =>
          LET taken == SubSeq(sq.channel, 1, Len(sq.channel) - Len(sq'.channel))
              ups(id) == {i \in 1..Len(taken) :
                            taken[i].id = id /\ taken[i].task.kind = "Upload"}
              with(id) == {i \in ups(id) : IsSome(taken[i].task.metadata)}
              lsn(i) == Unwrap(taken[i].task.metadata).lsn
          IN  \A id \in DOMAIN sq'.tasks :
                 IsSome(sq'.tasks[id].upload) =>
                    LET m == Unwrap(sq'.tasks[id].upload).metadata
                    IN  IF with(id) = {} THEN m = None
                        ELSE \E i \in with(id) :
                               /\ m = taken[i].task.metadata
                               /\ \A j \in with(id) :
                                     lsn(j) < lsn(i) \/ (lsn(j) = lsn(i) /\ j <= i) ]_vars

\* a batch in which an upload with metadata of LSN 1, a later upload with
\* other metadata of LSN 1 and an upload without metadata were merged
C31_Witness ==
    /\ sq.ret = "batch" /\ sq.channel = <<>>
    /\ DOMAIN sq.tasks = {<<"tenant3", "timeline1">>}
    /\ IsSome(sq.tasks[<<"tenant3", "timeline1">>].upload)
    /\ Unwrap(sq.tasks[<<"tenant3", "timeline1">>].upload).uploaded_layers = {"L2"}
    /\ Unwrap(sq.tasks[<<"tenant3", "timeline1">>].upload).layers_to_upload = Layers
    /\ Unwrap(sq.tasks[<<"tenant3", "timeline1">>].upload).retries = 0
    /\ Unwrap(sq.tasks[<<"tenant3", "timeline1">>].upload).metadata
         = Some([lsn |-> 1, tag |-> "b"])

\* C32: when the retry gate breaks for a delete task, the paths of its
\* deleted_layers, and nothing else, leave stored_files of the entry; the
\* index part of the changed entry is PUT, and whether the PUT succeeds or
\* fails the delete part ends there; no blob is deleted and the task is
\* not re-enqueued, in the gate step, in the PUT and when the step returns.
C32_DeleteGateBreak ==
    /\ [][ DeleteGateBreak =>
             /\ xresult' = "fatal" /\ xtask' = xtask
             /\ queue' = queue /\ blobs' = blobs /\ remote' = remote
             /\ IF IsSome(index)
                THEN /\ index' = Some([Unwrap(index) EXCEPT
                                         !.stored_files = @ \ Unwrap(xtask).deleted_layers])
                     /\ xpc' = "fail_put"
                ELSE /\ index' = index /\ xpc' = "done" ]_vars
    /\ [][ (lpc = "step" /\ xresult = "fatal") =>
             /\ queue' = queue /\ blobs' = blobs /\ index' = index
             /\ xpc' \in {xpc, "done"}
             /\ remote' # remote =>
                  (xpc = "fail_put" /\ remote' = Some(PartOfEntry(Unwrap(index)))) ]_vars

\* the gate broke for a delete task and took out of stored_files a layer
\* that the task had deleted; the PUT of the index part then failed
C32_Witness ==
    /\ lpc = "step" /\ xresult = "fatal" /\ xpc = "done"
    /\ batch.upload = None /\ IsSome(snapshot) /\ IsSome(index)
    /\ Unwrap(snapshot).stored_files \cap Unwrap(xtask).deleted_layers # {}
    /\ Unwrap(index).stored_files =
         Unwrap(snapshot).stored_files \ Unwrap(xtask).deleted_layers
    /\ remote # Some(PartOfEntry(Unwrap(index)))

\* the task of a taken element is represented in a map of batches: the
\* batch of its SyncId holds a task of its kind whose layer sets contain
\* the layer sets of the task
Represented(e, tasks) ==
    /\ e.id \in DOMAIN tasks
    /\ IsSome(SlotOf(tasks[e.id], e.task.kind))
    /\ \A f \in DOMAIN LayerSets(e.task) :
          LayerSets(e.task)[f] \subseteq
             LayerSets(Unwrap(SlotOf(tasks[e.id], e.task.kind)))[f]

C36_LengthTracksChannel ==
    /\ sq.length <= nsched
    /\ (pushing = 0 /\ nb.pc \notin {"first", "got"}) => sq.length = Len(sq.channel)

\* C34: a batch is taken off the queue only when no worker of an earlier
\* step is left, the loop awaits its next batch only with every worker
\* returned, and no two workers ever run for one SyncId.
C34_StepsDoNotOverlap ==
    /\ [](\A i, j \in 1..Len(workers) : i # j => workers[i].id # workers[j].id)
    /\ [](lpc = "recv" => workers = <<>>)
    /\ [][ Len(sq'.channel) < Len(sq.channel) => workers = <<>> ]_vars

\* two workers of one step are running while a task of the SyncId of one
\* of them waits in the queue
C34_Witness ==
    /\ lpc = "step" /\ Len(workers) = 2
    /\ ~Returned(workers[1]) /\ ~Returned(workers[2])
    /\ \E n \in 1..Len(sq.channel) : sq.channel[n].id = workers[1].id

\* a task of the worker is inside the sleep of validate_task_retries
Sleeping(w) == \E k \in Slots : w.pc[k] = "sleep"

\* the step has nothing left to do but to sleep: every task of every
\* worker has ended, sleeps, or is a delete task behind a sleeping task
OnlySleeps ==
    /\ lpc = "step"
    /\ \E i \in 1..Len(workers) : Sleeping(workers[i])
    /\ \A i \in 1..Len(workers), k \in Slots :
          /\ workers[i].pc[k] \in {"sleep", "done", "wait"}
          /\ ~AtGate(workers[i], k)

\* C35: while a task of one timeline sleeps in validate_task_retries, the
\* tasks of the other timelines of the batch can move; and when the step
\* has nothing left to do but to sleep, a queued task of a timeline other
\* than the sleeping ones can be taken for processing.
C35_SleepBlocksNoOtherTimeline ==
    /\ \A i, j \in 1..Len(workers) :
          (i # j /\ Sleeping(workers[i])) =>
             \A k \in Slots :
                /\ AtGate(workers[j], k) => ENABLED GateOf(j, k)
                /\ workers[j].pc[k] = "run" => ENABLED RunOf(j, k)
    /\ (OnlySleeps /\ \E n \in 1..Len(sq.channel) :
                         \A i \in 1..Len(workers) :
                            Sleeping(workers[i]) => sq.channel[n].id # workers[i].id)
          => ENABLED LoopNextTaskBatch

\* the gate lets through a delete task that is not registered, for a
\* timeline without an entry in the index
UnregisteredDeleteWithoutEntry ==
    /\ lpc = "step" /\ xpc = "wait" /\ xpc' # "wait" /\ IsSome(xtask)
    /\ ~GateBreaks(Unwrap(xtask).retries, MaxSyncErrors)
    /\ ~Unwrap(xtask).deletion_registered
    /\ ~IsSome(index)

\* C37: a delete task that passes the gate for a timeline without an
\* entry changes neither the index nor the index part in the store, is
\* not re-enqueued, becomes registered and is at its blob phase; the blob
\* phase of a timeline without an entry deletes blobs of the task's layers.
C37_DeleteWithoutEntry ==
    [][ /\ UnregisteredDeleteWithoutEntry =>
             /\ index' = index /\ remote' = remote /\ queue' = queue
             /\ xpc' = "blobs" /\ xresult' = xresult
             /\ Unwrap(xtask').deletion_registered
             /\ DeleteTodo(Unwrap(xtask')) = DeleteTodo(Unwrap(xtask))
        /\ (lpc = "step" /\ xpc = "blobs" /\ xpc' # "blobs" /\ ~IsSome(index)) =>
             /\ index' = index /\ remote' = remote
             /\ blobs \ blobs' \subseteq DeleteTodo(Unwrap(xtask))
             /\ xresult' = "ok" => blobs' = blobs \ DeleteTodo(Unwrap(xtask)) ]_vars

\* a delete task registered without an entry and without an index part is
\* at its blob phase and a blob of one of its layers is in the store
C37_Witness ==
    /\ lpc = "step" /\ xpc = "blobs"
    /\ index = None /\ remote = None
    /\ Unwrap(xtask).deletion_registered /\ Unwrap(xtask).retries = 0
    /\ DeleteTodo(Unwrap(xtask)) \cap blobs # {}

\* C38: KeySpace::partition terminates: the loop over the ranges is
\* bounded by their number, so it terminates when every turn of the while
\* loop makes remain_size smaller.
C38_SplitMakesProgress ==
    [][(kp.pc = "while" /\ kp'.pc = "while" /\ kp' # kp) =>
          kp'.remain_size < kp.remain_size]_vars

RECURSIVE KeysOfRanges(_)
\* the keys of a sequence of ranges, in the order of the sequence
KeysOfRanges(rs) ==
    IF rs = <<>> THEN <<>>
    ELSE [k \in 1..(rs[1].end - rs[1].start) |-> rs[1].start + k - 1]
            \o KeysOfRanges(Tail(rs))

RECURSIVE KeysOfParts(_)
\* the keys of the parts, concatenated in order
KeysOfParts(parts) ==
    IF parts = <<>> THEN <<>>
    ELSE KeysOfRanges(parts[1]) \o KeysOfParts(Tail(parts))

SeqRange(s) == {s[i] : i \in 1..Len(s)}

\* C40: when an iteration of collect_metrics_task is over, the metrics
\* handed to the billing endpoint are the collected metrics whose key was
\* not in the cache before the iteration or had another value there, each
\* once, and the cache holds the value of every collected metric, whatever
\* the results of the requests; an iteration that ends with an error of
\* the collection sends nothing and leaves the cache as it was.
C40_SentIffNewOrChanged ==
    /\ bm.pc = "tick" =>
          /\ \A m \in SeqRange(bm.current_metrics) :
                /\ m \in SeqRange(bm.posted) <=>
                      \/ m.key \notin DOMAIN bm.before
                      \/ bm.before[m.key] # m.value
                /\ m.key \in DOMAIN bm.cached_metrics
                /\ bm.cached_metrics[m.key] = m.value
          /\ SeqRange(bm.posted) \subseteq SeqRange(bm.current_metrics)
          /\ Cardinality(SeqRange(bm.posted)) = Len(bm.posted)
          /\ \A k \in DOMAIN bm.before :
                (\A m \in SeqRange(bm.current_metrics) : m.key # k) =>
                    k \in DOMAIN bm.cached_metrics
                    /\ bm.cached_metrics[k] = bm.before[k]
    /\ bm.pc = "failed" =>
          bm.posted = <<>> /\ bm.cached_metrics = bm.before

\* an iteration is over in which a request failed, a metric with a changed
\* value was posted and a collected metric with the cached value was not
C40_Witness ==
    /\ bm.pc = "tick"
    /\ \E i \in 1..Len(bm.results) : ~bm.results[i]
    /\ \E m \in SeqRange(bm.posted) :
          m.key \in DOMAIN bm.before /\ bm.before[m.key] # m.value
    /\ \E m \in SeqRange(bm.current_metrics) :
          /\ m.key \in DOMAIN bm.before /\ bm.before[m.key] = m.value
          /\ m \notin SeqRange(bm.posted)

====
